---- MODULE Spec2Model ----
(***************************************************************************)
(* Title Resolution Engine of MovieLibrarian: lib/naming.py (normaliser,   *)
(* noise classifier, candidate extraction, scoring, choose_title) and      *)
(* lib/omdb_client.py (resolve_title_via_omdb).                             *)
(*                                                                         *)
(* A Python str is modelled as a sequence of one-character strings, so    *)
(* that every regular expression of the source is an operator over the    *)
(* characters of its argument.                                             *)
(***************************************************************************)
EXTENDS Integers, Sequences, FiniteSets, TLC

\* ------------------------------------------------------------------------
\* Characters and the str / re primitives the source uses
\* ------------------------------------------------------------------------

Digit == {"0", "1", "2", "3", "4", "5", "6", "7", "8", "9"}

Upper == {"A", "B", "C", "D", "E", "F", "G", "H", "I", "J", "K", "L", "M",
          "N", "O", "P", "Q", "R", "S", "T", "U", "V", "W", "X", "Y", "Z"}

Lower == {"a", "b", "c", "d", "e", "f", "g", "h", "i", "j", "k", "l", "m",
          "n", "o", "p", "q", "r", "s", "t", "u", "v", "w", "x", "y", "z"}

Letter == Upper \cup Lower

AlNum == Letter \cup Digit

\* \w of re (ASCII part)
WordCh == AlNum \cup {"_"}

\* \s of re and the characters str.strip() removes (ASCII part)
Space == {" ", "\t", "\n", "\r"}

LowerOf ==
    "A" :> "a" @@ "B" :> "b" @@ "C" :> "c" @@ "D" :> "d" @@ "E" :> "e" @@
    "F" :> "f" @@ "G" :> "g" @@ "H" :> "h" @@ "I" :> "i" @@ "J" :> "j" @@
    "K" :> "k" @@ "L" :> "l" @@ "M" :> "m" @@ "N" :> "n" @@ "O" :> "o" @@
    "P" :> "p" @@ "Q" :> "q" @@ "R" :> "r" @@ "S" :> "s" @@ "T" :> "t" @@
    "U" :> "u" @@ "V" :> "v" @@ "W" :> "w" @@ "X" :> "x" @@ "Y" :> "y" @@
    "Z" :> "z"

UpperOf ==
    "a" :> "A" @@ "b" :> "B" @@ "c" :> "C" @@ "d" :> "D" @@ "e" :> "E" @@
    "f" :> "F" @@ "g" :> "G" @@ "h" :> "H" @@ "i" :> "I" @@ "j" :> "J" @@
    "k" :> "K" @@ "l" :> "L" @@ "m" :> "M" @@ "n" :> "N" @@ "o" :> "O" @@
    "p" :> "P" @@ "q" :> "Q" @@ "r" :> "R" @@ "s" :> "S" @@ "t" :> "T" @@
    "u" :> "U" @@ "v" :> "V" @@ "w" :> "W" @@ "x" :> "X" @@ "y" :> "Y" @@
    "z" :> "Z"

LowCh(c) == IF c \in Upper THEN LowerOf[c] ELSE c

UpCh(c) == IF c \in Lower THEN UpperOf[c] ELSE c

\* str.lower()
lower(s) == [i \in 1..Len(s) |-> LowCh(s[i])]

Min(a, b) == IF a <= b THEN a ELSE b

Max(a, b) == IF a >= b THEN a ELSE b

\* s[i:] with 1-based i
From(s, i) == SubSeq(s, i, Len(s))

\* p occurs in s at position i
OccursAt(s, i, p) ==
    /\ i >= 1
    /\ i + Len(p) - 1 <= Len(s)
    /\ \A k \in 1..Len(p) : s[i + k - 1] = p[k]

\* "p in s"
Contains(s, p) == \E i \in 1..(Len(s) - Len(p) + 1) : OccursAt(s, i, p)

\* every character of s is in the class C
AllIn(s, C) == \A i \in 1..Len(s) : s[i] \in C

\* end of the maximal run of characters of class C that starts at i
\* (i - 1 when s[i] is not in C)
RECURSIVE RunEnd(_, _, _)
RunEnd(s, i, C) ==
    IF i <= Len(s) /\ s[i] \in C THEN RunEnd(s, i + 1, C) ELSE i - 1

\* str.strip(chars) for a set of characters
RECURSIVE LStrip(_, _)
LStrip(s, C) ==
    IF s # <<>> /\ s[1] \in C THEN LStrip(Tail(s), C) ELSE s

RECURSIVE RStrip(_, _)
RStrip(s, C) ==
    IF s # <<>> /\ s[Len(s)] \in C THEN RStrip(SubSeq(s, 1, Len(s) - 1), C) ELSE s

Strip(s, C) == RStrip(LStrip(s, C), C)

\* \b of re at the gap before position i (1..Len(s)+1)
WordBoundary(s, i) ==
    LET before == i > 1 /\ s[i - 1] \in WordCh
        after  == i <= Len(s) /\ s[i] \in WordCh
    IN  before # after

\* re.sub(pattern, repl, s), the pattern given by M(s, i): the end of the
\* match that starts at i, or -1 when the pattern does not match at i.
\* (No pattern of the source matches the empty string.)
RECURSIVE ReSub(_, _, _, _)
ReSub(M(_, _), repl, s, i) ==
    IF i > Len(s) THEN <<>>
    ELSE LET e == M(s, i)
         IN  IF e >= i THEN repl \o ReSub(M, repl, s, e + 1)
             ELSE <<s[i]>> \o ReSub(M, repl, s, i + 1)

\* re.sub(r'\s+', ' ', s)
M_spaces(s, i) == IF s[i] \in Space THEN RunEnd(s, i, Space) ELSE -1

CollapseSpaces(s) == ReSub(M_spaces, <<" ">>, s, 1)

\* str.split(): the whitespace-separated words of s
RECURSIVE SplitWords(_)
SplitWords(s) ==
    LET t == LStrip(s, Space)
    IN  IF t = <<>> THEN <<>>
        ELSE LET e == RunEnd(t, 1, {t[k] : k \in 1..Len(t)} \ Space)
             IN  <<SubSeq(t, 1, e)>> \o SplitWords(From(t, e + 1))

\* ' '.join(words)
RECURSIVE JoinWords(_)
JoinWords(ws) ==
    IF ws = <<>> THEN <<>>
    ELSE IF Len(ws) = 1 THEN ws[1]
    ELSE ws[1] \o <<" ">> \o JoinWords(Tail(ws))

\* the characters occurring in s
Chars(s) == {s[k] : k \in 1..Len(s)}

\* smallest element of a non-empty set of integers
MinOf(S) == CHOOSE x \in S : \A y \in S : x <= y

\* ------------------------------------------------------------------------
\* lib/naming.py: clean_title_string
\* ------------------------------------------------------------------------

\* r'<[^>]+>'
M_tag(s, i) ==
    IF s[i] # "<" THEN -1
    ELSE LET e == RunEnd(s, i + 1, Chars(s) \ {">"})
         IN  IF e >= i + 1 /\ e + 1 <= Len(s) THEN e + 1 ELSE -1

\* html.unescape: named character references.  The references modelled are
\* lt, gt, amp and quot (with or without the closing ';', as html.entities
\* .html5 lists them); numeric references ('&#..') and the other names are
\* outside the input vocabulary.
EntityNames ==
    {<<"l", "t">>, <<"g", "t">>, <<"a", "m", "p">>, <<"q", "u", "o", "t">>,
     <<"L", "T">>, <<"G", "T">>, <<"A", "M", "P">>, <<"Q", "U", "O", "T">>}

EntityChar(name) ==
    LET n == lower(name)
    IN  IF n = <<"l", "t">> THEN "<"
        ELSE IF n = <<"g", "t">> THEN ">"
        ELSE IF n = <<"a", "m", "p">> THEN "&"
        ELSE "\""

\* characters a reference name is made of: [^\t\n\f <&#;]
RefNameStop == {"\t", "\n", " ", "<", "&", "#", ";"}

RECURSIVE unescape(_, _)
unescape(s, i) ==
    IF i > Len(s) THEN <<>>
    ELSE IF s[i] # "&" THEN <<s[i]>> \o unescape(s, i + 1)
    ELSE LET e    == Min(RunEnd(s, i + 1, Chars(s) \ RefNameStop), i + 32)
             name == SubSeq(s, i + 1, e)
             semi == e + 1 <= Len(s) /\ s[e + 1] = ";"
             pref == {x \in 2..(Len(name) - 1) : SubSeq(name, 1, x) \in EntityNames}
         IN  IF e < i + 1 THEN <<"&">> \o unescape(s, i + 1)
             ELSE IF name \in EntityNames
                  THEN <<EntityChar(name)>> \o unescape(s, IF semi THEN e + 2 ELSE e + 1)
             ELSE IF pref # {}
                  THEN LET x == CHOOSE y \in pref : \A z \in pref : z <= y
                       IN  <<EntityChar(SubSeq(name, 1, x))>> \o SubSeq(s, i + 1 + x, e)
                              \o unescape(s, e + 1)
             ELSE <<"&">> \o name \o unescape(s, e + 1)

\* r'[._]+'
M_seps(s, i) == IF s[i] \in {".", "_"} THEN RunEnd(s, i, {".", "_"}) ELSE -1

\* str.replace('_', ' ')
ReplaceUnderscores(s) == [k \in 1..Len(s) |-> IF s[k] = "_" THEN " " ELSE s[k]]

\* the words b, br, i, span, div
MarkupWords ==
    {<<"b">>, <<"b", "r">>, <<"i">>, <<"s", "p", "a", "n">>, <<"d", "i", "v">>}

\* the run of word characters that starts at a word boundary i, or <<>>
WordAt(s, i) ==
    IF s[i] \in WordCh /\ WordBoundary(s, i)
    THEN SubSeq(s, i, RunEnd(s, i, WordCh))
    ELSE <<>>

\* r'\b(?:b|br|i|span|div)\b', re.IGNORECASE
M_markup(s, i) ==
    LET w == WordAt(s, i)
    IN  IF w # <<>> /\ lower(w) \in MarkupWords THEN i + Len(w) - 1 ELSE -1

\* the extensions mkv, m2ts, mpls, iso
Extensions ==
    {<<"m", "k", "v">>, <<"m", "2", "t", "s">>, <<"m", "p", "l", "s">>, <<"i", "s", "o">>}

\* r'(mkv|m2ts|mpls|iso)\s*$' (re.IGNORECASE) matches s[j:]
ExtTailAt(s, j) ==
    \E x \in Extensions :
        /\ OccursAt(lower(s), j, x)
        /\ AllIn(From(s, j + Len(x)), Space)

\* re.sub(r'(?i)\.(mkv|m2ts|mpls|iso)\s*$', '', s)
StripDotExt(s) ==
    LET at == {i \in 1..Len(s) : s[i] = "." /\ ExtTailAt(s, i + 1)}
    IN  IF at = {} THEN s ELSE SubSeq(s, 1, MinOf(at) - 1)

\* re.sub(r'(?i)\s+(mkv|m2ts|mpls|iso)\s*$', '', s)
StripWordExt(s) ==
    LET at == {i \in 1..Len(s) :
                  s[i] \in Space /\ ExtTailAt(s, RunEnd(s, i, Space) + 1)}
    IN  IF at = {} THEN s ELSE SubSeq(s, 1, MinOf(at) - 1)

\* [tT]\d{1,3}
IsTMarker(w) ==
    /\ Len(w) \in 2..4
    /\ w[1] \in {"t", "T"}
    /\ AllIn(Tail(w), Digit)

\* r'\b[tT]\d{1,3}\b'
M_tmarker(s, i) ==
    LET w == WordAt(s, i)
    IN  IF w # <<>> /\ IsTMarker(w) THEN i + Len(w) - 1 ELSE -1

\* [Ss]\d{1,2}[Ee]\d{1,2}
IsEpisode(w) ==
    /\ Len(w) >= 4
    /\ w[1] \in {"S", "s"}
    /\ LET d == RunEnd(w, 2, Digit)
       IN  /\ d - 1 \in 1..2
           /\ d + 1 <= Len(w)
           /\ w[d + 1] \in {"E", "e"}
           /\ Len(w) - (d + 1) \in 1..2
           /\ AllIn(From(w, d + 2), Digit)

\* r'\b[Ss]\d{1,2}[Ee]\d{1,2}\b'
M_episode(s, i) ==
    LET w == WordAt(s, i)
    IN  IF w # <<>> /\ IsEpisode(w) THEN i + Len(w) - 1 ELSE -1

\* \d{3,4}p|720p|1080p|2160p|HD|SD|x264|x265|HEVC, re.IGNORECASE
IsResolutionToken(w) ==
    LET l == lower(w)
    IN  \/ l \in {<<"h", "d">>, <<"s", "d">>, <<"x", "2", "6", "4">>,
                  <<"x", "2", "6", "5">>, <<"h", "e", "v", "c">>}
        \/ /\ Len(l) \in 4..5
           /\ l[Len(l)] = "p"
           /\ AllIn(SubSeq(l, 1, Len(l) - 1), Digit)

\* r'\b(?:\d{3,4}p|720p|1080p|2160p|HD|SD|x264|x265|HEVC)\b'
M_resolution(s, i) ==
    LET w == WordAt(s, i)
    IN  IF w # <<>> /\ IsResolutionToken(w) THEN i + Len(w) - 1 ELSE -1

\* re.split(r'\s+-\s+', s, maxsplit=1)[0]
BeforeDashSuffix(s) ==
    LET at == {i \in 1..Len(s) :
                  /\ s[i] \in Space
                  /\ LET e == RunEnd(s, i, Space)
                     IN  /\ e + 2 <= Len(s)
                         /\ s[e + 1] = "-"
                         /\ s[e + 2] \in Space}
    IN  IF at = {} THEN s ELSE SubSeq(s, 1, MinOf(at) - 1)

\* r'[_\-]{2,}'
M_dashes(s, i) ==
    LET e == RunEnd(s, i, {"_", "-"})
    IN  IF e >= i + 1 THEN e ELSE -1

\* re.fullmatch(r'^(?:b|br|i|span|div)(?:\s+(?:b|br|i|span|div))*$', s, re.I)
OnlyMarkupWords(s) ==
    /\ s # <<>>
    /\ s[1] \notin Space
    /\ s[Len(s)] \notin Space
    /\ LET ws == SplitWords(s)
       IN  \A k \in 1..Len(ws) : lower(ws[k]) \in MarkupWords

PhraseTitleInformation ==
    <<"t", "i", "t", "l", "e", " ", "i", "n", "f", "o", "r", "m", "a", "t", "i", "o", "n">>

PhraseSourceInformation ==
    <<"s", "o", "u", "r", "c", "e", " ", "i", "n", "f", "o", "r", "m", "a", "t", "i", "o", "n">>

\* lines 27-40: up to the removal of the markup words
clean_head(s) ==
    Strip(CollapseSpaces(                                   \* line 40
      ReSub(M_markup, <<" ">>,                              \* line 39
        Strip(ReplaceUnderscores(                           \* lines 35-36
          ReSub(M_seps, <<" ">>,                            \* line 34
            unescape(                                       \* line 31
              ReSub(M_tag, <<" ">>,                         \* line 30
                Strip(Strip(s, Space), {"\""}),             \* line 27
                1),
              1),
            1)), Space),
        1)), Space)

\* lines 71-72: a remainder made only of markup words is dropped
DropOnlyMarkup(s) == IF OnlyMarkupWords(s) THEN <<>> ELSE s

\* lines 48-74: from the extensions to the final guard
clean_tail(s) ==
    DropOnlyMarkup(
      Strip(Strip(CollapseSpaces(                           \* lines 65, 68
        ReSub(M_dashes, <<" ">>,                            \* line 64
          BeforeDashSuffix(                                 \* line 61
            ReSub(M_resolution, <<>>,                       \* line 58
              ReSub(M_episode, <<>>,                        \* line 55
                ReSub(M_tmarker, <<>>,                      \* line 52
                  StripWordExt(StripDotExt(s)),             \* lines 48-49
                  1),
                1),
              1)),
          1)), Space), {" ", "_", "-"}))

\* lines 43-45: an empty or placeholder head yields '', else the tail runs
clean_checked(h) ==
    IF \/ h = <<>>
       \/ Contains(lower(h), PhraseTitleInformation)
       \/ Contains(lower(h), PhraseSourceInformation)
    THEN <<>>
    ELSE clean_tail(h)

clean_title_string(s) ==
    IF s = <<>> THEN <<>> ELSE clean_checked(clean_head(s))

\* ------------------------------------------------------------------------
\* lib/naming.py: is_hardware_label, is_noisy_title
\* ------------------------------------------------------------------------

\* the literal alternatives of the hardware pattern (bd-?re gives two)
HardwareTokens ==
    {<<"b", "d", "r", "e">>, <<"b", "d", "-", "r", "e">>, <<"b", "d", "-", "r">>,
     <<"b", "d", "r", "o", "m">>, <<"h", "l", "-", "d", "t", "-", "s", "t">>,
     <<"d", "v", "d">>, <<"u", "s", "b">>,
     <<"m", "a", "t", "s", "h", "i", "t", "a">>,
     <<"l", "i", "t", "e", "-", "o", "n">>,
     <<"p", "l", "e", "x", "t", "o", "r">>}

\* longest label that is not hardware-like by its length alone (line 18)
HardwareMaxLen == 40

is_hardware_label(name) ==
    IF name = <<>> THEN FALSE
    ELSE IF Len(name) > HardwareMaxLen THEN TRUE
    ELSE LET low == lower(name)
         IN  \/ \E h \in HardwareTokens : Contains(low, h)
             \* wh\d+[a-z0-9]*
             \/ \E i \in 1..(Len(low) - 2) :
                    OccursAt(low, i, <<"w", "h">>) /\ low[i + 2] \in Digit

ScanTags ==
    {<<"d", "r", "v">>, <<"c", "i", "n", "f", "o">>, <<"t", "i", "n", "f", "o">>}

\* re.fullmatch(r'\s*(?:DRV|CINFO|TINFO)[:\s]*\d+\s*', s, re.IGNORECASE)
IsScanTag(s) ==
    LET a == RunEnd(s, 1, Space) + 1
    IN  \E tag \in ScanTags :
            /\ OccursAt(lower(s), a, tag)
            /\ LET b == RunEnd(s, a + Len(tag), Space \cup {":"}) + 1
                   c == RunEnd(s, b, Digit)
               IN  /\ c >= b
                   /\ AllIn(From(s, c + 1), Space)

\* IsClockTime that asks for the seconds: 'MM:SS' alone does not match
IsClockTimeOfThreeParts(s) ==
    LET a == RunEnd(s, 1, Digit)
    IN  /\ a \in 1..2
        /\ Len(s) = a + 6
        /\ s[a + 1] = ":"
        /\ s[a + 2] \in Digit
        /\ s[a + 3] \in Digit
        /\ s[a + 4] = ":"
        /\ s[a + 5] \in Digit
        /\ s[a + 6] \in Digit

\* re.fullmatch(r'\d{1,2}:\d{2}(?::\d{2})?', s)
IsClockTime(s) ==
    LET a == RunEnd(s, 1, Digit)
    IN  /\ a \in 1..2
        /\ Len(s) \in {a + 3, a + 6}
        /\ s[a + 1] = ":"
        /\ s[a + 2] \in Digit
        /\ s[a + 3] \in Digit
        /\ Len(s) = a + 6 =>
              /\ s[a + 4] = ":"
              /\ s[a + 5] \in Digit
              /\ s[a + 6] \in Digit

\* shortest digit/comma/whitespace string the long-numeric rule rejects (line 90)
LongNumericMinLen == 5

\* re.fullmatch(r'^[\d,\s]{5,}$', s)
IsLongNumeric(s) ==
    Len(s) >= LongNumericMinLen /\ AllIn(s, Digit \cup {","} \cup Space)

\* re.search(r'\bchapter\b', low)
HasChapterWord(low) ==
    \E i \in 1..Len(low) : WordAt(low, i) = <<"c", "h", "a", "p", "t", "e", "r">>

\* r'[,\s]*\d+-\d+' matches at j
RangeAt(s, j) ==
    LET a == RunEnd(s, j, Space \cup {","}) + 1
        b == RunEnd(s, a, Digit)
    IN  /\ b >= a
        /\ b + 2 <= Len(s)
        /\ s[b + 1] = "-"
        /\ s[b + 2] \in Digit

\* re.search(r'\(?\d+(?:,\d+)*\)?(?:[,\s]*\d+-\d+)+', s).  The head
\* r'\(?\d+(?:,\d+)*\)?' can end right before j exactly when s[j-1] is a
\* digit, or s[j-1] is ')' after a digit; one range after it is a match.
HasChapterList(s) ==
    \E j \in 2..Len(s) :
        /\ \/ s[j - 1] \in Digit
           \/ j >= 3 /\ s[j - 1] = ")" /\ s[j - 2] \in Digit
        /\ RangeAt(s, j)

\* re.fullmatch(r'^[\d\(\)\-,\s]+$', s)
IsNumericList(s) ==
    s # <<>> /\ AllIn(s, Digit \cup {"(", ")", "-", ","} \cup Space)

\* re.search(r'\b\d+\s*chapter', low)
HasChapterCount(low) ==
    \E i \in 1..Len(low) :
        /\ low[i] \in Digit
        /\ WordBoundary(low, i)
        /\ LET e == RunEnd(low, i, Digit)
               f == RunEnd(low, e + 1, Space)
           IN  OccursAt(low, f + 1, <<"c", "h", "a", "p", "t", "e", "r">>)

\* re.search(r'\b\d+(\.\d+)?\s*(gb|mb)\b', low)
HasSizeUnit(low) ==
    \E i \in 1..Len(low) :
        /\ low[i] \in Digit
        /\ WordBoundary(low, i)
        /\ LET e == RunEnd(low, i, Digit)
               d == IF e + 2 <= Len(low) /\ low[e + 1] = "." /\ low[e + 2] \in Digit
                    THEN RunEnd(low, e + 2, Digit)
                    ELSE e
               f == RunEnd(low, d + 1, Space)
           IN  /\ \/ OccursAt(low, f + 1, <<"g", "b">>)
                  \/ OccursAt(low, f + 1, <<"m", "b">>)
               /\ WordBoundary(low, f + 3)

\* '$' of re: the end of s, or right before a final newline; s without it
BeforeFinalNewline(s) ==
    IF s # <<>> /\ s[Len(s)] = "\n" THEN {s, SubSeq(s, 1, Len(s) - 1)} ELSE {s}

\* re.search(r'\.(mkv|m2ts|mpls|iso)$', s, re.IGNORECASE)
EndsWithExtension(s) ==
    \E c \in BeforeFinalNewline(lower(s)) : \E x \in Extensions :
        /\ Len(c) > Len(x)
        /\ OccursAt(c, Len(c) - Len(x) + 1, x)
        /\ c[Len(c) - Len(x)] = "."

\* longest short code the underscore rule rejects (line 116)
CrypticMaxLen == 6

\* re.match(r'^[A-Z0-9_\-]{1,6}$', s, re.IGNORECASE) and '_' in s
IsCrypticCode(s) ==
    /\ \E c \in BeforeFinalNewline(s) :
           Len(c) \in 1..CrypticMaxLen /\ AllIn(c, AlNum \cup {"_", "-"})
    /\ "_" \in Chars(s)

\* longest alphanumeric string that is too short to be a title (line 119)
TooShortMaxLen == 3

\* re.fullmatch(r'^[\dA-Za-z]{1,3}$', s)
IsTooShort(s) == Len(s) \in 1..TooShortMaxLen /\ AllIn(s, AlNum)

\* line 107: "chapter" in low or "chapter(s)" in low or "gb" in low or "mb" in low
HasNoiseMarker(low) ==
    \/ Contains(low, <<"c", "h", "a", "p", "t", "e", "r">>)
    \/ Contains(low, <<"c", "h", "a", "p", "t", "e", "r", "(", "s", ")">>)
    \/ Contains(low, <<"g", "b">>)
    \/ Contains(low, <<"m", "b">>)

\* is_noisy_title without the rule of lines 121-123 on hardware labels
is_noisy_title_but_hardware(s) ==
    IF s = <<>> THEN TRUE
    ELSE LET low == lower(s)
             st  == Strip(s, Space)
         IN  \/ IsScanTag(s)
             \/ IsClockTime(st)
             \/ IsLongNumeric(st)
             \/ HasChapterWord(low)
             \/ HasChapterList(s)
             \/ IsNumericList(st)
             \/ "<" \in Chars(s)
             \/ ">" \in Chars(s)
             \/ Contains(low, <<"&", "l", "t", ";">>)
             \/ Contains(low, <<"&", "g", "t", ";">>)
             \/ Contains(low, PhraseTitleInformation)
             \/ Contains(low, PhraseSourceInformation)
             \/ HasNoiseMarker(low)
             \/ HasChapterCount(low)
             \/ HasSizeUnit(low)
             \/ EndsWithExtension(s)
             \/ IsCrypticCode(s)
             \/ IsTooShort(s)

is_noisy_title(s) ==
    IF s = <<>> THEN TRUE
    ELSE LET low == lower(s)
             st  == Strip(s, Space)
         IN  \/ IsScanTag(s)
             \/ IsClockTime(st)
             \/ IsLongNumeric(st)
             \/ HasChapterWord(low)
             \/ HasChapterList(s)
             \/ IsNumericList(st)
             \/ "<" \in Chars(s)
             \/ ">" \in Chars(s)
             \/ Contains(low, <<"&", "l", "t", ";">>)
             \/ Contains(low, <<"&", "g", "t", ";">>)
             \/ Contains(low, PhraseTitleInformation)
             \/ Contains(low, PhraseSourceInformation)
             \/ HasNoiseMarker(low)
             \/ HasChapterCount(low)
             \/ HasSizeUnit(low)
             \/ EndsWithExtension(s)
             \/ IsCrypticCode(s)
             \/ IsTooShort(s)
             \/ is_hardware_label(s)

\* ------------------------------------------------------------------------
\* csv.reader(io.StringIO(text)) with the default dialect, as pick_cinfo_title
\* and resolve_title_via_omdb read their text: all fields of all rows
\* ------------------------------------------------------------------------

\* the end-of-line mark the reader processes after every line
EOL == "EOL"

CsvStart == [state |-> "START_RECORD", cur |-> <<>>, fields |-> <<>>, err |-> FALSE]

\* parse_save_field
CsvSave(p, next) ==
    [p EXCEPT !.fields = Append(@, p.cur), !.cur = <<>>, !.state = next]

AfterLine(c) == IF c = EOL THEN "START_RECORD" ELSE "EAT_CRNL"

\* parse_process_char of the reader, strict = False, doublequote = True
CsvStartField(p, c) ==
    IF c \in {"\n", "\r", EOL} THEN CsvSave(p, AfterLine(c))
    ELSE IF c = "\"" THEN [p EXCEPT !.state = "IN_QUOTED_FIELD"]
    ELSE IF c = "," THEN CsvSave(p, "START_FIELD")
    ELSE [p EXCEPT !.cur = Append(@, c), !.state = "IN_FIELD"]

CsvChar(p, c) ==
    CASE p.state = "START_RECORD" ->
            IF c = EOL THEN p
            ELSE IF c \in {"\n", "\r"} THEN [p EXCEPT !.state = "EAT_CRNL"]
            ELSE CsvStartField(p, c)
      [] p.state = "START_FIELD" -> CsvStartField(p, c)
      [] p.state = "IN_FIELD" ->
            IF c \in {"\n", "\r", EOL} THEN CsvSave(p, AfterLine(c))
            ELSE IF c = "," THEN CsvSave(p, "START_FIELD")
            ELSE [p EXCEPT !.cur = Append(@, c)]
      [] p.state = "IN_QUOTED_FIELD" ->
            IF c = EOL THEN p
            ELSE IF c = "\"" THEN [p EXCEPT !.state = "QUOTE_IN_QUOTED_FIELD"]
            ELSE [p EXCEPT !.cur = Append(@, c)]
      [] p.state = "QUOTE_IN_QUOTED_FIELD" ->
            IF c = "\"" THEN [p EXCEPT !.cur = Append(@, c), !.state = "IN_QUOTED_FIELD"]
            ELSE IF c = "," THEN CsvSave(p, "START_FIELD")
            ELSE IF c \in {"\n", "\r", EOL} THEN CsvSave(p, AfterLine(c))
            ELSE [p EXCEPT !.cur = Append(@, c), !.state = "IN_FIELD"]
      [] OTHER ->  \* EAT_CRNL
            IF c \in {"\n", "\r"} THEN p
            ELSE IF c = EOL THEN [p EXCEPT !.state = "START_RECORD"]
            ELSE [p EXCEPT !.err = TRUE]  \* csv.Error: new-line character seen

\* the lines of the StringIO end at '\n'; EOL follows each line
RECURSIVE CsvRun(_, _, _)
CsvRun(text, i, p) ==
    IF p.err THEN p
    ELSE IF i > Len(text)
    THEN IF p.cur # <<>> \/ p.state = "IN_QUOTED_FIELD" THEN CsvSave(p, "START_RECORD") ELSE p
    ELSE LET q == CsvChar(p, text[i])
             r == IF ~q.err /\ (text[i] = "\n" \/ i = Len(text)) THEN CsvChar(q, EOL) ELSE q
         IN  CsvRun(text, i + 1, r)

CsvParse(text) == CsvRun(text, 1, CsvStart)

\* re.findall(r'"([^"]+)"', text)
RECURSIVE QuotedFields(_, _)
QuotedFields(text, i) ==
    IF i > Len(text) THEN <<>>
    ELSE IF text[i] # "\"" THEN QuotedFields(text, i + 1)
    ELSE LET e == RunEnd(text, i + 1, Chars(text) \ {"\""})
         IN  IF e >= i + 1 /\ e + 1 <= Len(text)
             THEN <<SubSeq(text, i + 1, e)>> \o QuotedFields(text, e + 2)
             ELSE QuotedFields(text, i + 1)

\* ------------------------------------------------------------------------
\* lib/naming.py: pick_cinfo_title
\* ------------------------------------------------------------------------

\* lines 214-222: the stripped fields, or the quoted captures on csv.Error
cinfo_rows(p, raw_info) ==
    IF p.err THEN QuotedFields(raw_info, 1)
    ELSE [k \in 1..Len(p.fields) |-> Strip(p.fields[k], Space)]

cinfo_fields(raw_info) == cinfo_rows(CsvParse(raw_info), raw_info)

_alpha_count(s) == Cardinality({k \in 1..Len(s) : s[k] \in Letter})

\* re.fullmatch(r'\s*[A-Za-z]:?\s*', s)
_is_drive_letter_field(s) ==
    LET a == RunEnd(s, 1, Space) + 1
    IN  /\ a <= Len(s)
        /\ s[a] \in Letter
        /\ LET b == IF a + 1 <= Len(s) /\ s[a + 1] = ":" THEN a + 2 ELSE a + 1
           IN  AllIn(From(s, b), Space)

\* str.isupper()
isupper(w) == Chars(w) \cap Lower = {} /\ Chars(w) \cap Upper # {}

\* str.title()
title(w) ==
    [k \in 1..Len(w) |->
        IF k > 1 /\ w[k - 1] \in Letter THEN LowCh(w[k]) ELSE UpCh(w[k])]

\* ' '.join(w.title() if w.isupper() else w for w in s.replace('_', ' ').split())
TitleCaseUpperWords(s) ==
    LET ws == SplitWords(ReplaceUnderscores(s))
    IN  JoinWords([k \in 1..Len(ws) |-> IF isupper(ws[k]) THEN title(ws[k]) ELSE ws[k]])

\* KeepIfGood without the noise test: every non-empty cleaned string is kept
KeepIfNonEmpty(cand) == cand

\* 'if cand and not is_noisy_title(cand): return cand'; <<>> when the loop goes on
KeepIfGood(cand) == IF cand # <<>> /\ ~is_noisy_title(cand) THEN cand ELSE <<>>

\* the value the loops return for a candidate string, <<>> when they go on
CleanIfGood(candidate) == KeepIfGood(clean_title_string(candidate))

\* lines 225-237, one field of the first pass
cinfo_pass1(f) ==
    IF \/ f = <<>>
       \/ _is_drive_letter_field(f)
       \/ _alpha_count(f) < 3
       \/ ~("_" \in Chars(f) /\ Chars(f) \cap Letter # {})
    THEN <<>>
    ELSE CleanIfGood(TitleCaseUpperWords(f))

\* lines 250-266: token is the field, cand its cleaned form when that is
\* usable; an all-caps token that cleans to itself keeps its spelling
cinfo_token(token, cand) ==
    IF Len(token) >= 3 /\ AllIn(token, Upper \cup Digit) /\ cand # <<>>
    THEN IF lower(cand) = lower(token) THEN token ELSE cand
    ELSE CleanIfGood(TitleCaseUpperWords(token))

\* lines 240-266, one field of the second pass
cinfo_pass2(f) ==
    IF \/ f = <<>>
       \/ IsScanTag(f)
       \/ _is_drive_letter_field(f)
       \/ _alpha_count(f) < 3
    THEN <<>>
    ELSE cinfo_token(Strip(f, Space), CleanIfGood(Strip(f, Space)))

\* a, or b when a is empty
OrElse(a, b) == IF a # <<>> THEN a ELSE b

\* the first non-empty value of F over the sequence, or <<>>
RECURSIVE FirstGood(_, _)
FirstGood(F(_), seq) ==
    IF seq = <<>> THEN <<>> ELSE OrElse(F(seq[1]), FirstGood(F, Tail(seq)))

\* lines 225-266: the first pass over all fields, then the second
cinfo_passes(fields) ==
    OrElse(FirstGood(cinfo_pass1, fields), FirstGood(cinfo_pass2, fields))

pick_cinfo_title(raw_info) ==
    IF raw_info = <<>> THEN <<>> ELSE cinfo_passes(cinfo_fields(raw_info))

\* ------------------------------------------------------------------------
\* lib/naming.py: pick_title_name_from_tinfo.  The dict of one title's fields
\* is the sequence of its (field id, value) pairs in insertion order
\* ------------------------------------------------------------------------

\* line 9
CANDIDATE_TINFO_PRIORITY == <<27, 49, 30, 3>>

\* data.get(fid), with <<>> for None: line 130 skips both alike
RECURSIVE FieldValue(_, _)
FieldValue(data, fid) ==
    IF data = <<>> THEN <<>>
    ELSE IF data[1][1] = fid THEN data[1][2]
    ELSE FieldValue(Tail(data), fid)

\* lines 128-134
RECURSIVE priority_pick(_, _)
priority_pick(data, fids) ==
    IF fids = <<>> THEN <<>>
    ELSE LET v    == FieldValue(data, fids[1])
             cand == CleanIfGood(v)
         IN  IF v # <<>> /\ cand # <<>>
             THEN cand
             ELSE priority_pick(data, Tail(fids))

\* line 136
skip_fields == {2}

\* fallback_pick without the test of line 138: no field is skipped
RECURSIVE fallback_pick_all(_)
fallback_pick_all(data) ==
    IF data = <<>> THEN <<>>
    ELSE LET cand == CleanIfGood(data[1][2])
         IN  IF cand # <<>> THEN cand ELSE fallback_pick_all(Tail(data))

\* lines 137-143
RECURSIVE fallback_pick(_)
fallback_pick(data) ==
    IF data = <<>> THEN <<>>
    ELSE IF data[1][1] \in skip_fields THEN fallback_pick(Tail(data))
    ELSE LET cand == CleanIfGood(data[1][2])
         IN  IF cand # <<>> THEN cand ELSE fallback_pick(Tail(data))

\* lines 126-145
pick_title_name_from_tinfo(data) ==
    OrElse(priority_pick(data, CANDIDATE_TINFO_PRIORITY), fallback_pick(data))

\* ------------------------------------------------------------------------
\* lib/naming.py: gather_raw_title_candidates, score_and_prioritise_candidates
\* ------------------------------------------------------------------------

\* str.splitlines() for the line ends '\n', '\r' and '\r\n'
RECURSIVE splitlines(_)
splitlines(text) ==
    IF text = <<>> THEN <<>>
    ELSE LET e    == RunEnd(text, 1, Chars(text) \ {"\n", "\r"})
             skip == IF e + 2 <= Len(text) /\ text[e + 1] = "\r" /\ text[e + 2] = "\n"
                     THEN 2 ELSE 1
         IN  <<SubSeq(text, 1, e)>> \o splitlines(From(text, e + 1 + skip))

\* positions of the commas of a line, in order
CommaPositions(line) == {k \in 1..Len(line) : line[k] = ","}

\* line.split(",", n) has more than n parts
HasParts(line, n) == Cardinality(CommaPositions(line)) >= n

\* line.split(",", n)[n]: what follows the n-th comma
RECURSIVE LastPart(_, _)
LastPart(line, n) ==
    IF n = 0 THEN line
    ELSE LastPart(From(line, MinOf(CommaPositions(line)) + 1), n - 1)

\* parts[n].strip().strip('"')
TrailingValue(line, n) == Strip(Strip(LastPart(line, n), Space), {"\""})

\* lines 151-163: the candidates of the scan lines, in line order
RECURSIVE line_candidates(_)
line_candidates(lines) ==
    IF lines = <<>> THEN <<>>
    ELSE LET line == lines[1]
             here ==
                 IF OccursAt(line, 1, <<"C", "I", "N", "F", "O">>)
                 THEN IF HasParts(line, 2) /\ TrailingValue(line, 2) # <<>>
                      THEN << <<"cinfo", TrailingValue(line, 2)>> >> ELSE <<>>
                 ELSE IF OccursAt(line, 1, <<"T", "I", "N", "F", "O">>)
                 THEN IF HasParts(line, 3) /\ TrailingValue(line, 3) # <<>>
                      THEN << <<"tinfo", TrailingValue(line, 3)>> >> ELSE <<>>
                 ELSE <<>>
         IN  here \o line_candidates(Tail(lines))

\* lines 164-167
RECURSIVE parsed_candidates(_)
parsed_candidates(parsed_titles) ==
    IF parsed_titles = <<>> THEN <<>>
    ELSE (IF parsed_titles[1].title # <<>>
          THEN << <<"tinfo_parsed", parsed_titles[1].title>> >> ELSE <<>>)
         \o parsed_candidates(Tail(parsed_titles))

\* gather_raw_title_candidates with the values of the CINFO lines put before
\* those of the TINFO lines
gather_grouped_by_source(raw_info_text, drive_label, parsed_titles) ==
    (IF drive_label # <<>> THEN << <<"label", drive_label>> >> ELSE <<>>)
    \o SelectSeq(line_candidates(splitlines(raw_info_text)), LAMBDA c : c[1] = "cinfo")
    \o SelectSeq(line_candidates(splitlines(raw_info_text)), LAMBDA c : c[1] = "tinfo")
    \o parsed_candidates(parsed_titles)

gather_raw_title_candidates(raw_info_text, drive_label, parsed_titles) ==
    (IF drive_label # <<>> THEN << <<"label", drive_label>> >> ELSE <<>>)
    \o line_candidates(splitlines(raw_info_text))
    \o parsed_candidates(parsed_titles)

\* lines 178-187
SourceWeight(src) ==
    CASE src = "cinfo" -> 40
      [] src = "label" -> 8
      [] src = "tinfo_parsed" -> 12
      [] src = "tinfo" -> 4
      [] OTHER -> 1

\* re.search(r'[a-z][A-Z]|[A-Z][a-z]', val)
HasMixedCase(val) ==
    \E k \in 1..(Len(val) - 1) :
        \/ val[k] \in Lower /\ val[k + 1] \in Upper
        \/ val[k] \in Upper /\ val[k + 1] \in Lower

\* lines 177-192: the score one raw candidate adds to its key
CandidateScore(src, val, key) ==
    SourceWeight(src)
    + (IF Len(key) >= 4 THEN 2 ELSE 0)
    + (IF HasMixedCase(val) THEN 1 ELSE 0)

\* AddScore that overwrites: seen[key] = score
AddScoreOverwrite(seen, key, score) ==
    IF \E k \in 1..Len(seen) : seen[k][1] = key
    THEN [k \in 1..Len(seen) |->
             IF seen[k][1] = key THEN <<key, score>> ELSE seen[k]]
    ELSE Append(seen, <<key, score>>)

\* seen[key] = seen.get(key, 0) + score, the dict kept in insertion order
AddScore(seen, key, score) ==
    IF \E k \in 1..Len(seen) : seen[k][1] = key
    THEN [k \in 1..Len(seen) |->
             IF seen[k][1] = key THEN <<key, seen[k][2] + score>> ELSE seen[k]]
    ELSE Append(seen, <<key, score>>)

\* score_one without the noise test: every non-empty cleaned candidate scores
score_one_unfiltered(seen, src, val, cand) ==
    IF cand = <<>> THEN seen
    ELSE AddScore(seen, Strip(cand, Space), CandidateScore(src, val, Strip(cand, Space)))

\* lines 173-192, one raw candidate (src, val) whose cleaned form is cand
score_one(seen, src, val, cand) ==
    IF cand = <<>> \/ is_noisy_title(cand) THEN seen
    ELSE AddScore(seen, Strip(cand, Space), CandidateScore(src, val, Strip(cand, Space)))

RECURSIVE score_seen(_, _)
score_seen(cands, seen) ==
    IF cands = <<>> THEN seen
    ELSE score_seen(Tail(cands),
                    score_one(seen, cands[1][1], cands[1][2],
                              clean_title_string(cands[1][2])))

\* sorted(items, key = Key, reverse = True): stable, equal keys keep their order
RECURSIVE InsertDesc(_, _, _)
InsertDesc(Key(_), sorted, x) ==
    IF sorted = <<>> THEN <<x>>
    ELSE IF Key(sorted[1]) >= Key(x)
         THEN <<sorted[1]>> \o InsertDesc(Key, Tail(sorted), x)
         ELSE <<x>> \o sorted

RECURSIVE SortedDesc(_, _)
SortedDesc(Key(_), items) ==
    IF items = <<>> THEN <<>>
    ELSE InsertDesc(Key, SortedDesc(Key, SubSeq(items, 1, Len(items) - 1)), items[Len(items)])

ScoreOf(entry) == entry[2]

\* the scored candidates left in the order of the dict
score_and_prioritise_unsorted(cands) == score_seen(cands, <<>>)

score_and_prioritise_candidates(cands) == SortedDesc(ScoreOf, score_seen(cands, <<>>))

\* ------------------------------------------------------------------------
\* lib/naming.py: choose_title, stage by stage
\* ------------------------------------------------------------------------

SecondsOf(t) == t.seconds

\* lines 272-278, one parsed title
parsed_pass(t) == CleanIfGood(t.title)

\* parsed_choice without the sort: the first good name in the order given
parsed_choice_unsorted(parsed_titles) == FirstGood(parsed_pass, parsed_titles)

\* lines 272-278: the first good name by duration, or <<>> to go on
parsed_choice(parsed_titles) ==
    FirstGood(parsed_pass, SortedDesc(SecondsOf, parsed_titles))

RECURSIVE score_seen_unfiltered(_, _)
score_seen_unfiltered(cands, seen) ==
    IF cands = <<>> THEN seen
    ELSE score_seen_unfiltered(Tail(cands),
                               score_one_unfiltered(seen, cands[1][1], cands[1][2],
                                                    clean_title_string(cands[1][2])))

\* filtered_pool without the noise test of line 175 and without the filter of
\* line 290: every candidate that is not empty after cleaning is ranked
unfiltered_pool(raw_info_text, drive_label, parsed_titles) ==
    SortedDesc(ScoreOf,
               score_seen_unfiltered(
                   gather_raw_title_candidates(raw_info_text, drive_label, parsed_titles),
                   <<>>))

\* lines 286-290
NotHardware(entry) == ~is_hardware_label(entry[1])

filtered_pool(raw_info_text, drive_label, parsed_titles) ==
    SelectSeq(score_and_prioritise_candidates(
                  gather_raw_title_candidates(raw_info_text, drive_label, parsed_titles)),
              NotHardware)

\* the margin by which the top score must lead to be taken unasked (line 294)
AutoAcceptMargin == 8

\* line 294
auto_accept(filtered) ==
    \/ Len(filtered) = 1
    \/ Len(filtered) > 1 /\ filtered[1][2] >= filtered[2][2] + AutoAcceptMargin

\* most candidates the prompt lists (lines 299, 308)
PromptMax == 6

\* int(choice) of a string of decimal digits
DigitValue ==
    "0" :> 0 @@ "1" :> 1 @@ "2" :> 2 @@ "3" :> 3 @@ "4" :> 4 @@
    "5" :> 5 @@ "6" :> 6 @@ "7" :> 7 @@ "8" :> 8 @@ "9" :> 9

RECURSIVE IntOf(_)
IntOf(ds) ==
    IF ds = <<>> THEN 0 ELSE 10 * IntOf(SubSeq(ds, 1, Len(ds) - 1)) + DigitValue[ds[Len(ds)]]

\* prompt_choice without the limit of line 308 on the number: any entry of
\* the pool can be picked
prompt_choice_uncapped(filtered, response) ==
    IF response.error THEN filtered[1][1]
    ELSE LET choice == Strip(response.line, Space)
         IN  IF choice # <<>> /\ AllIn(choice, Digit)
             THEN LET idx == IntOf(choice)
                  IN  IF idx = 0 THEN <<>>
                      ELSE IF 1 <= idx /\ idx <= Len(filtered)
                           THEN filtered[idx][1]
                           ELSE filtered[1][1]
             ELSE filtered[1][1]

\* lines 302-313: the answer to the prompt.  response is what input() gives:
\* [error |-> TRUE] when it raises an Exception (EOFError), else the line read
prompt_choice(filtered, response) ==
    IF response.error THEN filtered[1][1]
    ELSE LET choice == Strip(response.line, Space)
         IN  IF choice # <<>> /\ AllIn(choice, Digit)
             THEN LET idx == IntOf(choice)
                  IN  IF idx = 0 THEN <<>>
                      ELSE IF 1 <= idx /\ idx <= Min(PromptMax, Len(filtered))
                           THEN filtered[idx][1]
                           ELSE filtered[1][1]
             ELSE filtered[1][1]

\* lines 291-313: the choice among the filtered, scored pool
pool_choice(filtered, interactive, isatty, response) ==
    IF filtered = <<>> THEN <<>>
    ELSE IF auto_accept(filtered) THEN filtered[1][1]
    ELSE IF interactive /\ isatty THEN prompt_choice(filtered, response)
    ELSE filtered[1][1]

\* choose_title as one function of its inputs and of the terminal
choose_title(raw_info_text, drive_label, parsed_titles, interactive, isatty, response) ==
    OrElse(IF parsed_titles # <<>> THEN parsed_choice(parsed_titles) ELSE <<>>,
      OrElse(pick_cinfo_title(raw_info_text),
        pool_choice(filtered_pool(raw_info_text, drive_label, parsed_titles),
                    interactive, isatty, response)))

\* ------------------------------------------------------------------------
\* lib/omdb_client.py: the lookups and searches resolve_title_via_omdb makes
\* ------------------------------------------------------------------------

\* None of Python; no str is modelled by this value
None == <<"None">>

\* re.sub(r'[^A-Za-z0-9]', '', s)
AlnumOnly(s) == SelectSeq(s, LAMBDA c : c \in AlNum)

\* re.findall(r'\w+', s)
RECURSIVE WordTokens(_, _)
WordTokens(s, i) ==
    IF i > Len(s) THEN <<>>
    ELSE IF s[i] \notin WordCh THEN WordTokens(s, i + 1)
    ELSE <<SubSeq(s, i, RunEnd(s, i, WordCh))>> \o WordTokens(s, RunEnd(s, i, WordCh) + 1)

\* re.match(r'^\s*(DRV|CINFO|TINFO)\b', query, re.IGNORECASE)
StartsWithScanTag(query) ==
    \E tag \in ScanTags :
        /\ OccursAt(lower(query), RunEnd(query, 1, Space) + 1, tag)
        /\ WordBoundary(query, RunEnd(query, 1, Space) + 1 + Len(tag))

\* line 110
IsCsvLike(query) ==
    \/ "," \in Chars(query)
    \/ "\"" \in Chars(query)
    \/ StartsWithScanTag(query)

\* [p.strip() for p in re.split(r'\s*,\s*', query) if p.strip()]
RECURSIVE CommaParts(_)
CommaParts(s) ==
    IF CommaPositions(s) = {}
    THEN IF Strip(s, Space) # <<>> THEN <<Strip(s, Space)>> ELSE <<>>
    ELSE (IF Strip(SubSeq(s, 1, MinOf(CommaPositions(s)) - 1), Space) # <<>>
          THEN <<Strip(SubSeq(s, 1, MinOf(CommaPositions(s)) - 1), Space)>>
          ELSE <<>>)
         \o CommaParts(From(s, MinOf(CommaPositions(s)) + 1))

NonEmpty(f) == f # <<>>

\* lines 112-119: the non-empty fields, stripped of blanks and quotes; on
\* csv.Error the quoted captures, or else the comma-separated parts
omdb_rows(p, query) ==
    IF p.err
    THEN OrElse(QuotedFields(query, 1), CommaParts(query))
    ELSE [k \in 1..Len(SelectSeq(p.fields, NonEmpty)) |->
             Strip(Strip(SelectSeq(p.fields, NonEmpty)[k], Space), {"\""})]

omdb_fields(query) == omdb_rows(CsvParse(query), query)

\* line 101: _try_exact asks the service only for two alphanumerics or more
Askable(cand) == cand # <<>> /\ Len(AlnumOnly(cand)) >= 2

AskIf(cand) == IF Askable(cand) THEN <<cand>> ELSE <<>>

\* f.replace('_', ' ').strip()
Normalised(f) == Strip(ReplaceUnderscores(f), Space)

\* lines 121-145: the titles the field loop looks up, in order, as long as
\* no lookup succeeds; tried holds the lower-cased strings seen so far
RECURSIVE field_lookups(_, _)
field_lookups(fields, tried) ==
    IF fields = <<>> THEN <<>>
    ELSE IF fields[1] = <<>> \/ lower(fields[1]) \in tried
    THEN field_lookups(Tail(fields), tried)
    ELSE IF IsScanTag(fields[1]) \/ _is_drive_letter_field(fields[1])
    THEN field_lookups(Tail(fields), tried \cup {lower(fields[1])})
    ELSE IF lower(Normalised(fields[1])) \in tried \cup {lower(fields[1])}
    THEN AskIf(fields[1])
         \o field_lookups(Tail(fields), tried \cup {lower(fields[1])})
    ELSE AskIf(fields[1]) \o AskIf(Normalised(fields[1]))
         \o field_lookups(Tail(fields),
                          tried \cup {lower(fields[1]), lower(Normalised(fields[1]))})

\* lines 148-156: the raw and the space-normalised form of the whole query
underscore_lookups(query) ==
    IF "_" \in Chars(query)
    THEN AskIf(Strip(Strip(query, Space), {"\""}))
         \o AskIf(Normalised(Strip(Strip(query, Space), {"\""})))
    ELSE <<>>

\* lines 110-156: every title _try_exact asks the service for, in order
try_exact_lookups(query) ==
    (IF IsCsvLike(query) THEN field_lookups(omdb_fields(query), {}) ELSE <<>>)
    \o underscore_lookups(query)

\* re.sub(r'\s+', '', query)
NoSpaces(s) == SelectSeq(s, LAMBDA c : c \notin Space)

\* shortest prefix and shortest token that are searched for (lines 185, 189)
MinTermLen == 4

\* how far below the full length the prefixes go (line 183)
PrefixSpan == 6

\* most tokens that are searched for (line 190)
MaxTokenSearches == 3

\* lines 181-186: clean_q[:l] for l from max(4, L) down to max(3, L - 6)
RECURSIVE prefix_terms(_, _)
\* prefix_terms without the test of line 185: the prefix of three characters
\* is searched for as well
RECURSIVE prefix_terms_unchecked(_, _)
prefix_terms_unchecked(clean_q, l) ==
    IF l < Max(MinTermLen - 1, Len(clean_q) - PrefixSpan) THEN <<>>
    ELSE <<SubSeq(clean_q, 1, Min(l, Len(clean_q)))>>
         \o prefix_terms_unchecked(clean_q, l - 1)

prefix_terms(clean_q, l) ==
    IF l < Max(MinTermLen - 1, Len(clean_q) - PrefixSpan) THEN <<>>
    ELSE (IF Min(l, Len(clean_q)) >= MinTermLen
          THEN <<SubSeq(clean_q, 1, Min(l, Len(clean_q)))>> ELSE <<>>)
         \o prefix_terms(clean_q, l - 1)

LongEnough(t) == Len(t) >= MinTermLen

\* token_terms without the limit of line 190: every long token is searched for
token_terms_unlimited(query) == SelectSeq(WordTokens(query, 1), LongEnough)

\* lines 189-191
token_terms(query) ==
    SubSeq(SelectSeq(WordTokens(query, 1), LongEnough), 1,
           Min(MaxTokenSearches, Len(SelectSeq(WordTokens(query, 1), LongEnough))))

\* lines 178-191: every term searched for, in order
search_terms(query) ==
    <<query>>
    \o prefix_terms(NoSpaces(query), Max(MinTermLen, Len(NoSpaces(query))))
    \o token_terms(query)

\* ------------------------------------------------------------------------
\* lib/omdb_client.py: scores.  A float of the source is modelled by the
\* exact fraction [n, d] in lowest terms, d > 0
\* ------------------------------------------------------------------------

RECURSIVE GCD(_, _)
GCD(a, b) == IF b = 0 THEN a ELSE GCD(b, a % b)

Frac(n, d) == IF n = 0 THEN [n |-> 0, d |-> 1] ELSE [n |-> n \div GCD(n, d), d |-> d \div GCD(n, d)]

FracAdd(x, y) == Frac(x.n * y.d + y.n * x.d, x.d * y.d)

FracMul(x, y) == Frac(x.n * y.n, x.d * y.d)

FracLess(x, y) == x.n * y.d < y.n * x.d

FracLeq(x, y) == x.n * y.d <= y.n * x.d

One == [n |-> 1, d |-> 1]

Zero == [n |-> 0, d |-> 1]

\* the score left as it is
ClampOff(x) == x

\* max(0.0, min(1.0, x)); no score is negative
Clamp(x) == IF FracLess(One, x) THEN One ELSE x

\* the printable ASCII characters, but the backslash and the backquote, in
\* the order of their code points
AsciiOrder ==
    <<
      " ", "!", "\"", "#", "$", "%", "&", "'", "(", ")", "*", "+",
      ",", "-", ".", "/", "0", "1", "2", "3", "4", "5", "6", "7",
      "8", "9", ":", ";", "<", "=", ">", "?", "@", "A", "B", "C",
      "D", "E", "F", "G", "H", "I", "J", "K", "L", "M", "N", "O",
      "P", "Q", "R", "S", "T", "U", "V", "W", "X", "Y", "Z", "[",
      "]", "^", "_", "a", "b", "c", "d", "e", "f", "g",
      "h", "i", "j", "k", "l", "m", "n", "o", "p", "q", "r", "s",
      "t", "u", "v", "w", "x", "y", "z", "{", "|", "}", "~"
    >>

CodeOf(c) == CHOOSE i \in 1..Len(AsciiOrder) : AsciiOrder[i] = c

\* a < b for two str, as Python compares them
RECURSIVE StrLess(_, _)
StrLess(a, b) ==
    IF b = <<>> THEN FALSE
    ELSE IF a = <<>> THEN TRUE
    ELSE IF a[1] = b[1] THEN StrLess(Tail(a), Tail(b))
    ELSE CodeOf(a[1]) < CodeOf(b[1])

\* length of the common run of a[i..ahi] and b[j..bhi] from their starts
RECURSIVE CommonLen(_, _, _, _, _, _)
CommonLen(a, i, ahi, b, j, bhi) ==
    IF i <= ahi /\ j <= bhi /\ a[i] = b[j]
    THEN 1 + CommonLen(a, i + 1, ahi, b, j + 1, bhi)
    ELSE 0

\* m is a better block than x: longer, or as long and earlier in a, or as
\* long, at the same place in a and earlier in b
BetterBlock(m, x) ==
    \/ m[3] > x[3]
    \/ m[3] = x[3] /\ m[1] < x[1]
    \/ m[3] = x[3] /\ m[1] = x[1] /\ m[2] <= x[2]

\* SequenceMatcher.find_longest_match(alo, ahi, blo, bhi) without junk:
\* <<i, j, k>>, the longest block a[i..i+k-1] = b[j..j+k-1], the earliest
\* in a and then in b among the longest
LongestMatch(a, alo, ahi, b, blo, bhi) ==
    CHOOSE m \in {<<i, j, CommonLen(a, i, ahi, b, j, bhi)>> : i \in alo..ahi, j \in blo..bhi} :
        \A x \in {<<i, j, CommonLen(a, i, ahi, b, j, bhi)>> : i \in alo..ahi, j \in blo..bhi} :
            BetterBlock(m, x)

\* SequenceMatcher.get_matching_blocks: the total size of the blocks, the
\* longest block first, then the same to its left and to its right
RECURSIVE MatchTotal(_, _, _, _, _, _)
RECURSIVE MatchAround(_, _, _, _, _, _, _)
MatchAround(a, alo, ahi, b, blo, bhi, m) ==
    IF m[3] = 0 THEN 0
    ELSE m[3] + MatchTotal(a, alo, m[1] - 1, b, blo, m[2] - 1)
              + MatchTotal(a, m[1] + m[3], ahi, b, m[2] + m[3], bhi)

MatchTotal(a, alo, ahi, b, blo, bhi) ==
    IF alo > ahi \/ blo > bhi THEN 0
    ELSE MatchAround(a, alo, ahi, b, blo, bhi, LongestMatch(a, alo, ahi, b, blo, bhi))

\* difflib.SequenceMatcher(None, a, b).ratio() for non-empty a, b shorter
\* than the 200 characters at which the popularity heuristic sets in
ratio(a, b) == Frac(2 * MatchTotal(a, 1, Len(a), b, 1, Len(b)), Len(a) + Len(b))

\* lines 56-62.  With rapidfuzz installed the score is that of
\* fuzz.token_set_ratio, a library outside the repository: fuzzy is the
\* percentage it gives
_score_string(a, b, have_rapidfuzz, fuzzy) ==
    IF a = <<>> \/ b = <<>> THEN Zero
    ELSE IF have_rapidfuzz THEN Frac(fuzzy, 100)
    ELSE ratio(lower(a), lower(b))

\* set(re.findall(r'\w+', s.lower()))
TokenSet(s) == Chars(WordTokens(lower(s), 1))

\* lines 232-234
OverlapOf(q_tokens_set, t_tokens) ==
    IF q_tokens_set \cup t_tokens = {} THEN Zero
    ELSE Frac(Cardinality(q_tokens_set \cap t_tokens),
              Max(1, Cardinality(q_tokens_set \cup t_tokens)))

token_overlap(query, cand_title) == OverlapOf(TokenSet(query), TokenSet(cand_title))

\* lines 235-236
length_factor(query, cand_title) ==
    IF AlnumOnly(query) = <<>> THEN One
    ELSE Clamp(Frac(Len(AlnumOnly(cand_title)), Max(1, Len(AlnumOnly(query)))))

\* lines 219-225: the characters of si occur in bi in this order
RECURSIVE SubsequenceFrom(_, _)
SubsequenceFrom(si, bi) ==
    IF si = <<>> THEN TRUE
    ELSE IF bi = <<>> THEN FALSE
    ELSE IF bi[1] = si[1] THEN SubsequenceFrom(Tail(si), Tail(bi))
    ELSE SubsequenceFrom(si, Tail(bi))

\* lines 213-225
_is_subsequence(small, big) ==
    /\ AlnumOnly(small) # <<>>
    /\ AlnumOnly(big) # <<>>
    /\ SubsequenceFrom(lower(AlnumOnly(small)), lower(AlnumOnly(big)))

\* the weights of line 245 and the bonus of line 242
WeightBase == [n |-> 1, d |-> 2]

WeightOverlap == [n |-> 1, d |-> 4]

WeightLength == [n |-> 1, d |-> 10]

SubseqBonus == [n |-> 1, d |-> 4]

\* lines 230-246: the score of one candidate title, base its string score
final_score(query, cand_title, base) ==
    Clamp(FracAdd(FracAdd(FracMul(base, WeightBase),
                          FracMul(token_overlap(query, cand_title), WeightOverlap)),
                  FracAdd(FracMul(length_factor(query, cand_title), WeightLength),
                          IF _is_subsequence(query, cand_title) THEN SubseqBonus ELSE Zero)))

\* ------------------------------------------------------------------------
\* lib/omdb_client.py: the pool of search results, its best entry, the result
\* ------------------------------------------------------------------------

\* 'if x' for a str or None
Truthy(x) == x # None /\ x # <<>>

\* line 199: c.get("imdbID") or f"{title}|{year}"
KeyOf(item) ==
    IF Truthy(item.imdbID) THEN item.imdbID ELSE item.Title \o <<"|">> \o item.Year

\* lines 195-201 for the items of one search: an item whose key is new is kept
RECURSIVE Collect(_, _)
Collect(uniq, items) ==
    IF items = <<>> THEN uniq
    ELSE IF \E u \in uniq : KeyOf(u) = KeyOf(items[1])
    THEN Collect(uniq, Tail(items))
    ELSE Collect(uniq \cup {items[1]}, Tail(items))

\* line 208
NoBest == [iid |-> None, score |-> Zero, title |-> None, year |-> None]

\* line 250
PrevTitleLen(best) == IF best.title = None THEN 0 ELSE Len(best.title)

\* Consider without the tie-breaker of line 251: only a greater score replaces
ConsiderScoreOnly(best, item, score) ==
    IF FracLess(best.score, score)
    THEN [iid |-> KeyOf(item), score |-> score, title |-> item.Title, year |-> item.Year]
    ELSE best

\* every entry replaces the best one
ConsiderLast(best, item, score) ==
    [iid |-> KeyOf(item), score |-> score, title |-> item.Title, year |-> item.Year]

\* lines 250-252
Consider(best, item, score) ==
    IF \/ FracLess(best.score, score)
       \/ score = best.score /\ Len(item.Title) > PrevTitleLen(best)
    THEN [iid |-> KeyOf(item), score |-> score, title |-> item.Title, year |-> item.Year]
    ELSE best

\* the first entry of sorted(uniq.items()): the one with the least key
FirstByKey(uniq) ==
    CHOOSE x \in uniq : \A y \in uniq \ {x} : StrLess(KeyOf(x), KeyOf(y))

\* lines 227-252: the loop over the entries in the order of their keys;
\* fuzzy[item] is the percentage rapidfuzz gives for the item's title
RECURSIVE BestAfter(_, _, _, _, _)
RECURSIVE BestFrom(_, _, _, _, _, _)
BestFrom(item, rest, best, query, have_rapidfuzz, fuzzy) ==
    BestAfter(rest,
              Consider(best, item,
                       final_score(query, item.Title,
                                   _score_string(query, item.Title, have_rapidfuzz,
                                                 fuzzy[item]))),
              query, have_rapidfuzz, fuzzy)

BestAfter(uniq, best, query, have_rapidfuzz, fuzzy) ==
    IF uniq = {} THEN best
    ELSE BestFrom(FirstByKey(uniq), uniq \ {FirstByKey(uniq)}, best,
                  query, have_rapidfuzz, fuzzy)

\* lines 230-247: the score each entry of the pool gets
final_scores(uniq, query, have_rapidfuzz, fuzzy) ==
    [u \in uniq |->
        final_score(query, u.Title,
                    _score_string(query, u.Title, have_rapidfuzz, fuzzy[u]))]

\* line 26
SUGGEST_THRESHOLD == [n |-> 7, d |-> 20]

\* what resolve_title_via_omdb returns
Result(title_, year, imdb_id, confidence) ==
    [title |-> title_, year |-> year, imdb_id |-> imdb_id, confidence |-> confidence]

\* (None, None, None, 0.0)
NoResult == Result(None, None, None, Zero)

\* uniq[imdb_id]
MetaOf(uniq, iid) == CHOOSE u \in uniq : KeyOf(u) = iid

\* imdb_id.startswith("tt")
StartsWithTT(iid) == OccursAt(iid, 1, <<"t", "t">>)

\* lines 257-282 up to the request for the details: what is returned at
\* once (ask = FALSE), or what is returned unless the details come (ask = TRUE)
Decision(ask, result) == [ask |-> ask, result |-> result]

\* decide without the suggestion of lines 270-279: below the threshold
\* nothing is returned
decide_without_suggestion(best, meta, threshold) ==
    IF Truthy(best.iid) /\ FracLeq(threshold, best.score)
    THEN IF "|" \in Chars(best.iid) /\ ~StartsWithTT(best.iid)
         THEN Decision(FALSE, Result(meta.Title, meta.Year, None, best.score))
         ELSE Decision(TRUE, Result(meta.Title, meta.Year, meta.imdbID, best.score))
    ELSE Decision(FALSE, NoResult)

decide(best, meta, threshold) ==
    IF Truthy(best.iid) /\ FracLeq(threshold, best.score)
    THEN IF "|" \in Chars(best.iid) /\ ~StartsWithTT(best.iid)
         THEN Decision(FALSE, Result(meta.Title, meta.Year, None, best.score))
         ELSE Decision(TRUE, Result(meta.Title, meta.Year, meta.imdbID, best.score))
    ELSE IF Truthy(best.iid) /\ FracLeq(SUGGEST_THRESHOLD, best.score)
    THEN Decision(StartsWithTT(best.iid),
                  Result(meta.Title, meta.Year, meta.imdbID, best.score))
    ELSE Decision(FALSE, NoResult)

\* lines 203-282 up to the request for the details
Decide(uniq, best, threshold) ==
    IF Truthy(best.iid) THEN decide(best, MetaOf(uniq, best.iid), threshold)
    ELSE Decision(FALSE, NoResult)

\* ------------------------------------------------------------------------
\* State
\* ------------------------------------------------------------------------

VARIABLES
    \* clean_title_string on a text put together from tokens
    text,               \* the argument
    ntokens,            \* how many tokens it was put together from
    cpc,                \* "build", "cleaned", "recleaned"
    cleaned,            \* clean_title_string(text)
    recleaned,          \* clean_title_string(cleaned)
    \* one call of choose_title
    raw_info_text, drive_label, parsed_titles, interactive,   \* its arguments
    isatty,             \* what line 297 read: sys.stdin and sys.stdin.isatty()
    pc,                 \* where the call is: "start", "cinfo", "fallback", "decide", "done"
    filtered,           \* the filtered, scored pool (line 290)
    scored,             \* score_and_prioritise_candidates was called
    prompted,           \* input() was called
    reply,              \* what input() gave, once it was called
    via,                \* the return statement taken
    chosen,             \* the value returned
    \* one call of resolve_title_via_omdb
    query, api_key, threshold,   \* its arguments
    have_rapidfuzz,     \* _have_rapidfuzz and fuzz is not None
    opc,                \* where the call is: "start", "try_exact", "search", "details", "done"
    lookups,            \* the candidates _try_exact is still to ask for
    terms,              \* the terms run_search_and_collect is still to ask for
    uniq,               \* the search results collected, one for a key
    best,               \* the best entry of the pool (line 208)
    scores,             \* final_score of each entry of the pool (line 246)
    pending,            \* what is returned unless the details come
    result,             \* the tuple returned
    requests,           \* the HTTP requests made so far
    attempt,            \* the loop variable of _safe_url
    last,               \* the network call that ended last
    hit,                \* the exact-title lookup that reported success
    answered,           \* some request was answered with "Response": "True"
    \* score_and_prioritise_candidates applied to a list of candidates
    cands,              \* the argument: (source, raw value) pairs
    ranked,             \* what the call returned
    reranked,           \* what a second call on the same list returned
    spc,                \* "build", "ranked", "reranked"
    \* is_noisy_title applied to a string
    candidate,          \* the argument
    noisy,              \* what the call returned
    npc,                \* "build", "done"
    \* pick_title_name_from_tinfo applied to the fields of a title
    data,               \* the argument: (field id, value) pairs in the dict's order
    picked,             \* what the call returned
    tpc,                \* "build", "done"
    \* one call of rip_longest_titles
    drive, omdb_api_key,   \* its arguments
    rpc,                \* where the call is: "start", "probe", "resolve", "name", "done"
    raw_label,          \* line 52
    drive_letter,       \* line 53
    disc_candidate,     \* lines 60-72
    used_candidate_source,
    asked,              \* the queries resolve_title_via_omdb was called with
    suggested,          \* suggested_omdb_title, suggested_omdb_year, suggested_omdb_score
    folder,             \* the tuple returned
    \* calls of rip_disc_into_set on one set
    manifest,           \* manifest["discs"] in the file of the set
    set_drive,          \* the drive of the last call
    ripper_fn,          \* the ripper_fn of the last call, told by what it does
    loaded,             \* manifest["discs"] as the last call loaded it
    invoked,            \* the last call invoked ripper_fn
    written,            \* the last call called save_manifest
    returned,           \* what the last call returned
    tvpc                \* how the last call ended: "ready" before the first

cleanVars == <<text, ntokens, cpc, cleaned, recleaned>>

chooseVars ==
    <<raw_info_text, drive_label, parsed_titles, interactive, isatty, pc,
      filtered, scored, prompted, reply, via, chosen>>

omdbVars ==
    <<query, api_key, threshold, have_rapidfuzz, opc, lookups, terms, uniq, best,
      scores, pending, result, requests, attempt, last, hit, answered>>

scoreVars == <<cands, ranked, reranked, spc>>

noisyVars == <<candidate, noisy, npc>>

tinfoVars == <<data, picked, tpc>>

ripVars ==
    <<drive, omdb_api_key, rpc, raw_label, drive_letter, disc_candidate,
      used_candidate_source, asked, suggested, folder>>

tvVars == <<manifest, set_drive, ripper_fn, loaded, invoked, written, returned, tvpc>>

\* the variables of the calls of pure functions
pureVars == <<scoreVars, noisyVars, tinfoVars, ripVars, tvVars>>

vars == <<cleanVars, chooseVars, omdbVars, pureVars>>

\* the variables of a part that is not running
CleanIdle ==
    /\ text = <<>>
    /\ ntokens = 0
    /\ cpc = "idle"
    /\ cleaned = <<>>
    /\ recleaned = <<>>

\* the value of reply while input() has not been called: no line input()
\* returns holds a line end
NoReply == [error |-> FALSE, line |-> <<"\n">>]

ChooseIdle ==
    /\ raw_info_text = <<>>
    /\ drive_label = <<>>
    /\ parsed_titles = <<>>
    /\ interactive = FALSE
    /\ isatty = FALSE
    /\ pc = "idle"
    /\ filtered = <<>>
    /\ scored = FALSE
    /\ prompted = FALSE
    /\ reply = NoReply
    /\ via = "none"
    /\ chosen = <<>>

\* no exact-title lookup has reported success
NoHit == [body |-> [Response |-> "absent"], request |-> 0]

\* no network call has ended
NoCall == [kind |-> "none", term |-> None, wrapped |-> FALSE, raised |-> FALSE, requests |-> 0]

ScoreIdle ==
    /\ cands = <<>>
    /\ ranked = <<>>
    /\ reranked = <<>>
    /\ spc = "idle"

NoisyIdle ==
    /\ candidate = <<>>
    /\ noisy = FALSE
    /\ npc = "idle"

TinfoIdle ==
    /\ data = <<>>
    /\ picked = <<>>
    /\ tpc = "idle"

\* a drive argument that is not a dict
NotADict == [is_dict |-> FALSE, letter |-> None, label |-> None, run_info |-> <<>>]

\* no call of rip_disc_into_set was made
NoDrive == [signature |-> None, index |-> 0, label |-> None, info_hash |-> None]

\* ripper_fn = None
NoRipper == [kind |-> "none", files |-> <<>>, episode_map |-> <<>>]

\* suggested_omdb_title, suggested_omdb_year, suggested_omdb_score of lines 75-77
NoSuggestion == [title |-> None, year |-> None, score |-> [n |-> 0, d |-> 1]]

RipIdle ==
    /\ drive = NotADict
    /\ omdb_api_key = None
    /\ rpc = "idle"
    /\ raw_label = <<>>
    /\ drive_letter = <<>>
    /\ disc_candidate = <<>>
    /\ used_candidate_source = "none"
    /\ asked = <<>>
    /\ suggested = NoSuggestion
    /\ folder = <<>>

TvIdle ==
    /\ manifest = <<>>
    /\ set_drive = NoDrive
    /\ ripper_fn = NoRipper
    /\ loaded = <<>>
    /\ invoked = FALSE
    /\ written = FALSE
    /\ returned = <<>>
    /\ tvpc = "idle"

PureIdle == ScoreIdle /\ NoisyIdle /\ TinfoIdle /\ RipIdle /\ TvIdle

OmdbIdle ==
    /\ query = <<>>
    /\ api_key = None
    /\ threshold = Zero
    /\ have_rapidfuzz = FALSE
    /\ opc = "idle"
    /\ lookups = <<>>
    /\ terms = <<>>
    /\ uniq = {}
    /\ best = NoBest
    /\ scores = <<>>
    /\ pending = NoResult
    /\ result = NoResult
    /\ requests = 0
    /\ attempt = 0
    /\ last = NoCall
    /\ hit = NoHit
    /\ answered = FALSE

\* all sequences over S of length at most n
SeqsUpTo(S, n) == UNION {[1..k -> S] : k \in 0..n}

\* the concatenation of a sequence of strings
RECURSIVE Concat(_)
Concat(ss) == IF ss = <<>> THEN <<>> ELSE ss[1] \o Concat(Tail(ss))

\* ------------------------------------------------------------------------
\* clean_title_string applied, and applied again to its own result
\* ------------------------------------------------------------------------

\* most tokens a text is put together from
MaxTokens == 4

\* the pieces the texts are put together from
CleanTokens ==
    {<<"F", "i", "l", "m">>, <<" ">>, <<"m", "k", "v">>, <<"_">>,
     <<"t", "0", "1">>, <<"-">>, <<"\"">>, <<"&", "a", "m", "p", ";">>,
     <<"l", "t", ";">>, <<"1", "9", "9", "8">>}

InitClean ==
    /\ text = <<>>
    /\ ntokens = 0
    /\ cpc = "build"
    /\ cleaned = <<>>
    /\ recleaned = <<>>
    /\ ChooseIdle
    /\ OmdbIdle
    /\ PureIdle

AppendToken ==
    /\ cpc = "build"
    /\ ntokens < MaxTokens
    /\ \E tok \in CleanTokens : text' = text \o tok
    /\ ntokens' = ntokens + 1
    /\ UNCHANGED <<cpc, cleaned, recleaned, chooseVars, omdbVars, pureVars>>

Clean ==
    /\ cpc = "build"
    /\ cleaned' = clean_title_string(text)
    /\ cpc' = "cleaned"
    /\ UNCHANGED <<text, ntokens, recleaned, chooseVars, omdbVars, pureVars>>

CleanAgain ==
    /\ cpc = "cleaned"
    /\ recleaned' = clean_title_string(cleaned)
    /\ cpc' = "recleaned"
    /\ UNCHANGED <<text, ntokens, cleaned, chooseVars, omdbVars, pureVars>>

NextClean == AppendToken \/ Clean \/ CleanAgain

SpecClean == InitClean /\ [][NextClean]_vars

\* ------------------------------------------------------------------------
\* One call of choose_title
\* ------------------------------------------------------------------------

\* CINFO:2,0,"ARMAGEDN"\n
LineCinfoArmagedn ==
    <<"C", "I", "N", "F", "O", ":", "2", ",", "0", ",", "\"", "A", "R", "M",
      "A", "G", "E", "D", "N", "\"", "\n">>

\* CINFO:2,0,"It 3"\n
LineCinfoShort ==
    <<"C", "I", "N", "F", "O", ":", "2", ",", "0", ",", "\"", "I", "t", " ",
      "3", "\"", "\n">>

\* TINFO:0,27,0,"Up 2"\n
LineTinfoShort ==
    <<"T", "I", "N", "F", "O", ":", "0", ",", "2", "7", ",", "0", ",", "\"",
      "U", "p", " ", "2", "\"", "\n">>

\* TINFO:0,30,0,"2:30:15"\n
LineTinfoDuration ==
    <<"T", "I", "N", "F", "O", ":", "0", ",", "3", "0", ",", "0", ",", "\"",
      "2", ":", "3", "0", ":", "1", "5", "\"", "\n">>

\* DRV:0,2,999,1,"BD-RE","MOVIE_NAME","G:"\n
LineDrive ==
    <<"D", "R", "V", ":", "0", ",", "2", ",", "9", "9", "9", ",", "1", ",",
      "\"", "B", "D", "-", "R", "E", "\"", ",", "\"", "M", "O", "V", "I",
      "E", "_", "N", "A", "M", "E", "\"", ",", "\"", "G", ":", "\"", "\n">>

\* TINFO:d,27,0,"Up d"\n, the name of title d
LineTinfoUp(d) ==
    <<"T", "I", "N", "F", "O", ":", d, ",", "2", "7", ",", "0", ",", "\"",
      "U", "p", " ", d, "\"", "\n">>

\* the scan of a disc of seven titles, each with a name of its own
ScanSevenTitles ==
    Concat(<<LineTinfoUp("1"), LineTinfoUp("2"), LineTinfoUp("3"), LineTinfoUp("4"),
             LineTinfoUp("5"), LineTinfoUp("6"), LineTinfoUp("7")>>)

\* the scan lines the raw text is put together from
ScanLines == {LineCinfoArmagedn, LineCinfoShort, LineTinfoShort, LineTinfoDuration, LineDrive}

\* 'BD-RE WH16NS60'
LabelHardware ==
    <<"B", "D", "-", "R", "E", " ", "W", "H", "1", "6", "N", "S", "6", "0">>

\* 'Up 9'
LabelShort ==
    <<"U", "p", " ", "9">>

DriveLabels == {<<>>, LabelHardware, LabelShort}

\* '2:30:15'
TitleDuration ==
    <<"2", ":", "3", "0", ":", "1", "5">>

\* 'The Matrix'
TitleMatrix ==
    <<"T", "h", "e", " ", "M", "a", "t", "r", "i", "x">>

\* 'Some Show - Season 1'
TitleSeason ==
    <<"S", "o", "m", "e", " ", "S", "h", "o", "w", " ", "-", " ", "S", "e",
      "a", "s", "o", "n", " ", "1">>

\* the records makemkv's parsing gives: a name and a duration
TitleRecords ==
    {[title |-> <<>>, seconds |-> 7087],
     [title |-> TitleDuration, seconds |-> 9000],
     [title |-> TitleMatrix, seconds |-> 8160],
     [title |-> TitleSeason, seconds |-> 8160],
     [title |-> TitleSeason, seconds |-> 2520]}

\* what the terminal answers to the prompt
Responses ==
    {[error |-> TRUE, line |-> <<>>],
     [error |-> FALSE, line |-> <<"0">>],
     [error |-> FALSE, line |-> <<"1">>],
     [error |-> FALSE, line |-> <<" ", "2">>],
     [error |-> FALSE, line |-> <<"3">>],
     [error |-> FALSE, line |-> <<"6">>],
     [error |-> FALSE, line |-> <<"7">>],
     [error |-> FALSE, line |-> <<"0", "0">>],
     [error |-> FALSE, line |-> <<"x">>],
     [error |-> FALSE, line |-> <<>>]}

\* most scan lines and parsed titles, together, of one call
MaxItems == 3

InitChoose ==
    /\ parsed_titles \in SeqsUpTo(TitleRecords, MaxItems)
    /\ raw_info_text \in
          {Concat(ls) : ls \in SeqsUpTo(ScanLines, MaxItems - Len(parsed_titles))}
          \cup (IF parsed_titles = <<>> THEN {ScanSevenTitles} ELSE {})
    /\ drive_label \in DriveLabels
    /\ interactive \in BOOLEAN
    /\ isatty = FALSE
    /\ pc = "start"
    /\ filtered = <<>>
    /\ scored = FALSE
    /\ prompted = FALSE
    /\ reply = NoReply
    /\ via = "none"
    /\ chosen = <<>>
    /\ CleanIdle
    /\ OmdbIdle
    /\ PureIdle

Return(value, how) ==
    /\ chosen' = value
    /\ via' = how
    /\ pc' = "done"

\* 'if value: return value', else on to the next stage
ReturnOrGo(value, how, next) ==
    IF value # <<>>
    THEN Return(value, how)
    ELSE pc' = next /\ UNCHANGED <<chosen, via>>

\* lines 272-278
ParsedStep ==
    /\ pc = "start"
    /\ ReturnOrGo(IF parsed_titles # <<>> THEN parsed_choice(parsed_titles) ELSE <<>>,
                  "parsed", "cinfo")
    /\ UNCHANGED <<raw_info_text, drive_label, parsed_titles, interactive, isatty,
                   filtered, scored, prompted, reply, cleanVars, omdbVars, pureVars>>

\* CinfoStep without the early return: the disc-level title is never used
CinfoStepSkipped ==
    /\ pc = "cinfo"
    /\ pc' = "fallback"
    /\ UNCHANGED <<raw_info_text, drive_label, parsed_titles, interactive, isatty,
                   filtered, scored, prompted, reply, chosen, via, cleanVars, omdbVars, pureVars>>

\* lines 281-283
CinfoStep ==
    /\ pc = "cinfo"
    /\ ReturnOrGo(pick_cinfo_title(raw_info_text), "cinfo", "fallback")
    /\ UNCHANGED <<raw_info_text, drive_label, parsed_titles, interactive, isatty,
                   filtered, scored, prompted, reply, cleanVars, omdbVars, pureVars>>

\* lines 290-295: the filtered pool is kept; empty or clear-cut, it decides
KeepPool(pool) ==
    /\ filtered' = pool
    /\ IF pool = <<>> THEN Return(<<>>, "empty")
       ELSE IF auto_accept(pool) THEN Return(pool[1][1], "auto")
       ELSE pc' = "decide" /\ UNCHANGED <<chosen, via>>

\* lines 286-295
ScoreStep ==
    /\ pc = "fallback"
    /\ scored' = TRUE
    /\ KeepPool(filtered_pool(raw_info_text, drive_label, parsed_titles))
    /\ UNCHANGED <<raw_info_text, drive_label, parsed_titles, interactive, isatty,
                   prompted, reply, cleanVars, omdbVars, pureVars>>

\* PromptStep without the test of the interactive flag
PromptStepUnasked ==
    /\ pc = "decide"
    /\ isatty' = TRUE
    /\ prompted' = TRUE
    /\ \E response \in Responses :
          /\ reply' = response
          /\ Return(prompt_choice(filtered, response), "prompt")
    /\ UNCHANGED <<raw_info_text, drive_label, parsed_titles, interactive,
                   filtered, scored, cleanVars, omdbVars, pureVars>>

\* lines 297-311: interactive, and line 297 finds a terminal attached to
\* standard input
PromptStep ==
    /\ pc = "decide"
    /\ interactive
    /\ isatty' = TRUE
    /\ prompted' = TRUE
    /\ \E response \in Responses :
          /\ reply' = response
          /\ Return(prompt_choice(filtered, response), "prompt")
    /\ UNCHANGED <<raw_info_text, drive_label, parsed_titles, interactive,
                   filtered, scored, cleanVars, omdbVars, pureVars>>

\* DefaultStep returning the runner-up of the pool instead of its top
DefaultStepRunnerUp ==
    /\ pc = "decide"
    /\ isatty' = FALSE
    /\ Return(filtered[2][1], "default")
    /\ UNCHANGED <<raw_info_text, drive_label, parsed_titles, interactive,
                   filtered, scored, prompted, reply, cleanVars, omdbVars, pureVars>>

\* line 313, reached when not interactive, or when line 297 finds no terminal
DefaultStep ==
    /\ pc = "decide"
    /\ isatty' = FALSE
    /\ Return(filtered[1][1], "default")
    /\ UNCHANGED <<raw_info_text, drive_label, parsed_titles, interactive,
                   filtered, scored, prompted, reply, cleanVars, omdbVars, pureVars>>

NextChoose == ParsedStep \/ CinfoStep \/ ScoreStep \/ PromptStep \/ DefaultStep

SpecChoose == InitChoose /\ [][NextChoose]_vars

\* ------------------------------------------------------------------------
\* One call of resolve_title_via_omdb
\* ------------------------------------------------------------------------

\* 'ARMAGEDN'
QueryArmagedn == <<"A", "R", "M", "A", "G", "E", "D", "N">>

\* 'Armageddon'
QueryArmageddon == <<"A", "r", "m", "a", "g", "e", "d", "d", "o", "n">>

\* 'THE_ROCK'
QueryTheRock == <<"T", "H", "E", "_", "R", "O", "C", "K">>

\* 'Up'
QueryUp == <<"U", "p">>

\* 'DRV:0,"THE_ROCK","G:"'
QueryDrive == <<"D", "R", "V", ":", "0", ",", "\"", "T", "H", "E", "_", "R", "O", "C", "K", "\"", ",", "\"", "G", ":", "\"">>

\* 'Lost Boys Gone West'
QueryFourWords ==
    <<"L", "o", "s", "t", " ", "B", "o", "y", "s", " ", "G", "o", "n", "e", " ",
      "W", "e", "s", "t">>

Queries ==
    {<<>>, QueryArmagedn, QueryArmageddon, QueryTheRock, QueryUp, QueryDrive, QueryFourWords}

\* the key is missing, empty, or set
ApiKeys == {None, <<>>, <<"k", "e", "y">>}

Thresholds ==
    {Zero, [n |-> 1, d |-> 5], SUGGEST_THRESHOLD, [n |-> 2, d |-> 5], [n |-> 3, d |-> 5], One}

\* the entries the service knows; MovieUnlisted carries no imdbID
MovieArmageddon ==
    [Title |-> QueryArmageddon, Year |-> <<"1", "9", "9", "8">>,
     imdbID |-> <<"t", "t", "0", "1", "2", "0", "5", "9", "1">>]

MovieTheRock ==
    [Title |-> <<"T", "h", "e", " ", "R", "o", "c", "k">>,
     Year |-> <<"1", "9", "9", "6">>,
     imdbID |-> <<"t", "t", "0", "1", "1", "7", "5", "0", "0">>]

MovieUnlisted ==
    [Title |-> QueryArmageddon, Year |-> <<"1", "9", "9", "8">>, imdbID |-> None]

\* a short title that is a fragment of 'ARMAGEDN'
MovieArma ==
    [Title |-> <<"A", "r", "m", "a">>, Year |-> <<"2", "0", "1", "7">>,
     imdbID |-> <<"t", "t", "7", "0", "0", "7", "7", "2", "8">>]

Movies == {MovieArmageddon, MovieTheRock, MovieUnlisted, MovieArma}

\* most entries in the answer to one search
MaxResults == 2

\* the percentages fuzz.token_set_ratio may give
FuzzyScores == {0, 50, 100}

\* {}: a dict in which no key is present
EmptyDict == [Response |-> "absent"]

\* what one HTTP request does: urlopen or json.load raises, or a JSON object comes
Raised == [raised |-> TRUE, body |-> EmptyDict]

Answer(body) == [raised |-> FALSE, body |-> body]

NotFound == [Response |-> "False"]

Found(movie) ==
    [Response |-> "True", Title |-> movie.Title, Year |-> movie.Year,
     imdbID |-> movie.imdbID]

TitleOutcomes ==
    {Raised, Answer(NotFound)} \cup {Answer(Found(m)) : m \in Movies \ {MovieUnlisted}}

SearchOutcomes ==
    {Raised, Answer(NotFound)}
        \cup {Answer([Response |-> "True", Search |-> l]) : l \in SeqsUpTo(Movies, MaxResults)}

\* lines 32-54: a helper returns {} for every exception of the request
json_fn(outcome) ==
    [raised |-> FALSE, value |-> IF outcome.raised THEN EmptyDict ELSE outcome.body]

\* line 284
Retries == 2

\* lines 291-295: the helper raised and an attempt is left
Retrying(r) == r.raised /\ attempt < Retries

\* lines 290, 297: what _safe_url returns when it does not go round again
safe_value(r) == IF r.raised THEN EmptyDict ELSE r.value

\* lines 92-97
_safe_lookup_title(outcome) == safe_value(json_fn(outcome))

\* res and res.get("Response", "False") == "True"
IsTrue(res) == res # EmptyDict /\ res.Response = "True"

\* an exact lookup whose success indicator goes unread
try_exact_result_unchecked(res) == <<None, None, None>>

\* an exact lookup whose success goes unnoticed
try_exact_result_none(res) == None

\* lines 105-107, 161-163: the tuple of an answer that reports success
try_exact_result(res) ==
    IF IsTrue(res) THEN <<res.Title, res.Year, res.imdbID>> ELSE None

\* the service answered the request with "Response": "True"
Succeeded(outcome) == ~outcome.raised /\ outcome.body.Response = "True"

\* the call that has just ended
Call(kind, term, wrapped, outcome) ==
    [kind |-> kind, term |-> term, wrapped |-> wrapped, raised |-> outcome.raised,
     requests |-> attempt + 1]

InitOmdb ==
    /\ query \in Queries
    /\ api_key \in ApiKeys
    /\ threshold \in Thresholds
    /\ have_rapidfuzz \in BOOLEAN
    /\ opc = "start"
    /\ lookups = <<>>
    /\ terms = <<>>
    /\ uniq = {}
    /\ best = NoBest
    /\ scores = <<>>
    /\ pending = NoResult
    /\ result = NoResult
    /\ requests = 0
    /\ attempt = 0
    /\ last = NoCall
    /\ hit = NoHit
    /\ answered = FALSE
    /\ CleanIdle
    /\ ChooseIdle
    /\ PureIdle

Finish(res) ==
    /\ result' = res
    /\ opc' = "done"

\* lines 124-127, 152-155, 161-163: 'return res[0], res[1], res[2], 1.0', else on
ExactOr(found, next) ==
    IF found # None
    THEN Finish(Result(found[1], found[2], found[3], One))
    ELSE opc' = next /\ UNCHANGED result

\* the lookup that reported success, and the request that was its own
Noted(outcome) ==
    IF Succeeded(outcome) THEN [body |-> outcome.body, request |-> requests + 1] ELSE hit

\* a part of _safe_url's loop goes round again: nothing but the counters moves
Again ==
    /\ attempt' = attempt + 1
    /\ UNCHANGED <<opc, lookups, terms, uniq, best, scores, pending, result, last, hit, answered>>

\* the precondition with the test of the key left out
NoQueryOnly(q, key) == q = <<>>

\* line 89: not query or not api_key
NoQueryOrKey(q, key) == q = <<>> \/ ~Truthy(key)

\* lines 89-90, and the candidates of lines 110-156
Start ==
    /\ opc = "start"
    /\ IF NoQueryOrKey(query, api_key)
       THEN Finish(NoResult) /\ UNCHANGED lookups
       ELSE opc' = "try_exact" /\ lookups' = try_exact_lookups(query) /\ UNCHANGED result
    /\ UNCHANGED <<query, api_key, threshold, have_rapidfuzz, terms, uniq, best, scores, pending,
                   requests, attempt, last, hit, answered, cleanVars, chooseVars, pureVars>>

\* lines 100-107 for one candidate of lines 110-156
TryExactWith(outcome, found) ==
    /\ requests' = requests + 1
    /\ last' = Call("title", Head(lookups), FALSE, outcome)
    /\ hit' = Noted(outcome)
    /\ answered' = (answered \/ Succeeded(outcome))
    /\ ExactOr(found, "try_exact")
    /\ lookups' = IF found # None THEN lookups ELSE Tail(lookups)

TryExact ==
    /\ opc = "try_exact"
    /\ lookups # <<>>
    /\ \E outcome \in TitleOutcomes :
          TryExactWith(outcome, try_exact_result(_safe_lookup_title(outcome)))
    /\ UNCHANGED <<query, api_key, threshold, have_rapidfuzz, terms, uniq, best, scores, pending,
                   attempt, cleanVars, chooseVars, pureVars>>

\* lines 160-163
ExactLookupWith(outcome, r) ==
    /\ requests' = requests + 1
    /\ IF Retrying(r)
       THEN Again
       ELSE /\ attempt' = 0
            /\ last' = Call("title", query, TRUE, outcome)
            /\ hit' = Noted(outcome)
            /\ answered' = (answered \/ Succeeded(outcome))
            /\ ExactOr(try_exact_result(safe_value(r)), "search")
            /\ terms' = search_terms(query)
            /\ UNCHANGED <<lookups, uniq, best, scores, pending>>

ExactLookup ==
    /\ opc = "try_exact"
    /\ lookups = <<>>
    /\ \E outcome \in TitleOutcomes : ExactLookupWith(outcome, json_fn(outcome))
    /\ UNCHANGED <<query, api_key, threshold, have_rapidfuzz, cleanVars, chooseVars, pureVars>>

\* lines 169-172, 195-201: the items of an answer that reports success join the pool
Collected(res) == IF IsTrue(res) THEN Collect(uniq, res.Search) ELSE uniq

\* lines 167-175 for one term of lines 178-191
SearchWith(outcome, r) ==
    /\ requests' = requests + 1
    /\ IF Retrying(r)
       THEN Again
       ELSE /\ attempt' = 0
            /\ last' = Call("search", Head(terms), TRUE, outcome)
            /\ terms' = Tail(terms)
            /\ uniq' = Collected(safe_value(r))
            /\ answered' = (answered \/ Succeeded(outcome))
            /\ UNCHANGED <<opc, lookups, best, scores, pending, result, hit>>

Search ==
    /\ opc = "search"
    /\ terms # <<>>
    /\ \E outcome \in SearchOutcomes : SearchWith(outcome, json_fn(outcome))
    /\ UNCHANGED <<query, api_key, threshold, have_rapidfuzz, cleanVars, chooseVars, pureVars>>

\* lines 257-282 up to the request for the details
Decided(d) ==
    IF d.ask
    THEN opc' = "details" /\ pending' = d.result /\ UNCHANGED result
    ELSE Finish(d.result) /\ UNCHANGED pending

\* lines 208-252
Scored(b, finals) ==
    /\ best' = b
    /\ scores' = finals
    /\ Decided(Decide(uniq, b, threshold))

\* what rapidfuzz may give for the entries of the pool
FuzzyFor(pool) ==
    IF have_rapidfuzz THEN [pool -> FuzzyScores] ELSE {[x \in pool |-> 0]}

\* lines 203-282 up to the request for the details
Score ==
    /\ opc = "search"
    /\ terms = <<>>
    /\ IF uniq = {}
       THEN Finish(NoResult) /\ UNCHANGED <<best, scores, pending>>
       ELSE \E fuzzy \in FuzzyFor(uniq) :
               Scored(BestAfter(uniq, NoBest, query, have_rapidfuzz, fuzzy),
                      final_scores(uniq, query, have_rapidfuzz, fuzzy))
    /\ UNCHANGED <<query, api_key, threshold, have_rapidfuzz, lookups, terms, uniq,
                   requests, attempt, last, hit, answered, cleanVars, chooseVars, pureVars>>

\* the answers to a request for the details
DetailOutcomes ==
    {Raised, Answer(NotFound)} \cup {Answer(Found(m)) : m \in Movies \ {MovieUnlisted}}

\* lines 262-267, 275-279: the details if they come, else the entry of the pool
DetailsOr(res) ==
    IF IsTrue(res)
    THEN Finish(Result(res.Title, res.Year, res.imdbID, best.score))
    ELSE Finish(pending)

DetailsWith(outcome, r) ==
    /\ requests' = requests + 1
    /\ IF Retrying(r)
       THEN Again
       ELSE /\ attempt' = 0
            /\ last' = Call("id", best.iid, TRUE, outcome)
            /\ DetailsOr(safe_value(r))
            /\ answered' = (answered \/ Succeeded(outcome))
            /\ UNCHANGED <<lookups, terms, uniq, best, scores, pending, hit>>

Details ==
    /\ opc = "details"
    /\ \E outcome \in DetailOutcomes : DetailsWith(outcome, json_fn(outcome))
    /\ UNCHANGED <<query, api_key, threshold, have_rapidfuzz, cleanVars, chooseVars, pureVars>>

NextOmdb == Start \/ TryExact \/ ExactLookup \/ Search \/ Score \/ Details

SpecOmdb == InitOmdb /\ [][NextOmdb]_vars

\* ------------------------------------------------------------------------
\* score_and_prioritise_candidates applied, and applied again to the same list
\* ------------------------------------------------------------------------

\* 'Up 2'
RawUp2 == <<"U", "p", " ", "2">>

\* 'Up_2'
RawUpUnderscore2 == <<"U", "p", "_", "2">>

\* 'Go 4'
RawGo4 == <<"G", "o", " ", "4">>

\* 'IT 3'
RawIT3 == <<"I", "T", " ", "3">>

\* 'A c'
RawAc == <<"A", " ", "c">>

\* '2:30:15'
RawDuration == <<"2", ":", "3", "0", ":", "1", "5">>

\* '<b>'
RawTag == <<"<", "b", ">">>

\* the (source, raw value) pairs a list is put together from
RawCandidates ==
    {<<"cinfo", RawIT3>>, <<"cinfo", RawTag>>,
     <<"label", RawUp2>>, <<"label", RawDuration>>,
     <<"tinfo_parsed", RawUpUnderscore2>>, <<"tinfo_parsed", RawGo4>>,
     <<"tinfo", RawUp2>>, <<"tinfo", RawGo4>>,
     <<"other", RawAc>>, <<"other", RawIT3>>}

\* most candidates of a list
MaxCands == 3

InitScore ==
    /\ cands = <<>>
    /\ ranked = <<>>
    /\ reranked = <<>>
    /\ spc = "build"
    /\ CleanIdle
    /\ ChooseIdle
    /\ OmdbIdle
    /\ NoisyIdle
    /\ TinfoIdle
    /\ RipIdle
    /\ TvIdle

\* one more candidate at the end of the list
AppendCand ==
    /\ spc = "build"
    /\ Len(cands) < MaxCands
    /\ \E c \in RawCandidates : cands' = Append(cands, c)
    /\ UNCHANGED <<ranked, reranked, spc, cleanVars, chooseVars, omdbVars, noisyVars, tinfoVars, ripVars, tvVars>>

\* lines 170-194
Rank ==
    /\ spc = "build"
    /\ ranked' = score_and_prioritise_candidates(cands)
    /\ spc' = "ranked"
    /\ UNCHANGED <<cands, reranked, cleanVars, chooseVars, omdbVars, noisyVars, tinfoVars, ripVars, tvVars>>

\* lines 170-194, a second call on the same list
RankAgain ==
    /\ spc = "ranked"
    /\ reranked' = score_and_prioritise_candidates(cands)
    /\ spc' = "reranked"
    /\ UNCHANGED <<cands, ranked, cleanVars, chooseVars, omdbVars, noisyVars, tinfoVars, ripVars, tvVars>>

NextScore == AppendCand \/ Rank \/ RankAgain

SpecScore == InitScore /\ [][NextScore]_vars

\* ------------------------------------------------------------------------
\* is_noisy_title on strings of digits and colons
\* ------------------------------------------------------------------------

\* the characters a judged string is put together from
ClockChars == {"0", "2", "4", ":"}

\* most characters of a judged string
MaxChars == 8

\* what a judged string begins with: nothing, 'Dumbo', or '7 MB'
Beginnings == {<<>>, <<"D", "u", "m", "b", "o">>, <<"7", " ", "M", "B">>}

InitNoisy ==
    /\ candidate \in Beginnings
    /\ noisy = FALSE
    /\ npc = "build"
    /\ CleanIdle
    /\ ChooseIdle
    /\ OmdbIdle
    /\ ScoreIdle
    /\ TinfoIdle
    /\ RipIdle
    /\ TvIdle

\* one more character at the end of the string
AppendChar ==
    /\ npc = "build"
    /\ Len(candidate) < MaxChars
    /\ \E c \in ClockChars : candidate' = Append(candidate, c)
    /\ UNCHANGED <<noisy, npc, cleanVars, chooseVars, omdbVars, scoreVars, tinfoVars, ripVars, tvVars>>

\* lines 76-124
Judge ==
    /\ npc = "build"
    /\ noisy' = is_noisy_title(candidate)
    /\ npc' = "judged"
    /\ UNCHANGED <<candidate, cleanVars, chooseVars, omdbVars, scoreVars, tinfoVars, ripVars, tvVars>>

NextNoisy == AppendChar \/ Judge

SpecNoisy == InitNoisy /\ [][NextNoisy]_vars

\* ------------------------------------------------------------------------
\* pick_title_name_from_tinfo on the fields of one title
\* ------------------------------------------------------------------------

\* 'A1_t00.mkv'
ValueFileName ==
    <<"A", "1", "_", "t", "0", "0", ".", "m", "k", "v">>

\* '22 chapter(s) , 7087.6 MB (A1)'
ValueChapters ==
    <<"2", "2", " ", "c", "h", "a", "p", "t", "e", "r", "(", "s", ")", " ", ",",
      " ", "7", "0", "8", "7", ".", "6", " ", "M", "B", " ", "(", "A", "1", ")">>

\* 'ARMAGEDN'
ValueArmagedn ==
    <<"A", "R", "M", "A", "G", "E", "D", "N">>

\* the values a field holds; field 27 is also met empty
FieldValues(fid) ==
    {ValueFileName, ValueChapters, ValueArmagedn, RawUp2}
    \cup (IF fid = 27 THEN {<<>>} ELSE {})

\* the field ids of a title: the disc-level mirror 2, two of the priority
\* list, and two others
FieldIds == {2, 27, 30, 8, 16}

\* most fields of a title
MaxFields == 3

InitTinfo ==
    /\ data = <<>>
    /\ picked = <<>>
    /\ tpc = "build"
    /\ CleanIdle
    /\ ChooseIdle
    /\ OmdbIdle
    /\ ScoreIdle
    /\ NoisyIdle
    /\ RipIdle
    /\ TvIdle

\* data[fid] = v for a field id the dict does not hold yet
AppendField ==
    /\ tpc = "build"
    /\ Len(data) < MaxFields
    /\ \E fid \in FieldIds : \E v \in FieldValues(fid) :
          /\ \A k \in 1..Len(data) : data[k][1] # fid
          /\ data' = Append(data, <<fid, v>>)
    /\ UNCHANGED <<picked, tpc, cleanVars, chooseVars, omdbVars, scoreVars, noisyVars, ripVars, tvVars>>

\* lines 126-145
Pick ==
    /\ tpc = "build"
    /\ picked' = pick_title_name_from_tinfo(data)
    /\ tpc' = "done"
    /\ UNCHANGED <<data, cleanVars, chooseVars, omdbVars, scoreVars, noisyVars, ripVars, tvVars>>

NextTinfo == AppendField \/ Pick

SpecTinfo == InitTinfo /\ [][NextTinfo]_vars

\* ------------------------------------------------------------------------
\* One call of rip_longest_titles
\* ------------------------------------------------------------------------

\* x or ""
OrEmpty(x) == IF Truthy(x) THEN x ELSE <<>>

\* s or 1.0
OrOne(s) == IF s = Zero THEN One ELSE s

\* 0.60 of lines 89 and 98
RipThreshold == Frac(3, 5)

DiscCandidate(c, src) == [candidate |-> c, source |-> src]

\* lib/ripper.py lines 60-72: the disc candidate and where it came from
select_disc_candidate(letter, raw_info, label) ==
    LET cinfo_candidate == pick_cinfo_title(raw_info) IN
    IF letter # <<>> /\ ~is_noisy_title(letter)
    THEN DiscCandidate(letter, "drive_letter")
    ELSE IF cinfo_candidate # <<>>
    THEN DiscCandidate(cinfo_candidate, "cinfo")
    ELSE IF label # <<>> /\ ~is_noisy_title(label)
    THEN DiscCandidate(label, "drive_label")
    ELSE DiscCandidate(<<>>, "none")

\* line 22
NormLetter(letter) == Strip(ReplaceUnderscores(letter), Space)

\* lines 20-23: the probe asks a second time, for the normalised token
AsksNorm(letter, first) ==
    /\ ~Truthy(first.title)
    /\ NormLetter(letter) # <<>>
    /\ NormLetter(letter) # letter

\* (t, y, s) of the probe
Probed(t, y, s) == [title |-> t, year |-> y, score |-> s]

\* lib/ripper.py: _drive_letter_probe, where first and second are what
\* resolve_title_via_omdb returned for the token and for the normalised token
drive_letter_probe(letter, key, first, second) ==
    IF ~Truthy(key) \/ letter = <<>> THEN Probed(None, None, Zero)
    ELSE IF Truthy(first.title)
    THEN Probed(first.title, first.year, OrOne(first.confidence))
    ELSE IF AsksNorm(letter, first) /\ Truthy(second.title)
    THEN Probed(second.title, second.year, OrOne(second.confidence))
    ELSE Probed(None, None, Zero)

\* the queries the probe called resolve_title_via_omdb with
ProbeQueries(letter, key, first) ==
    IF ~Truthy(key) \/ letter = <<>> THEN <<>>
    ELSE IF AsksNorm(letter, first) THEN <<letter, NormLetter(letter)>>
    ELSE <<letter>>

\* lines 83 and 91
Suggest(t, y, s) == [title |-> t, year |-> OrEmpty(y), score |-> OrOne(s)]

\* lines 95-104
folder_name_src(sug, cand, label) ==
    IF Truthy(sug.title)
    THEN IF FracLeq(RipThreshold, sug.score) THEN sug.title
         ELSE IF cand # <<>> THEN cand ELSE sug.title
    ELSE IF cand # <<>> THEN cand
    ELSE IF label # <<>> THEN label
    ELSE None

\* 'G:'
LetterG == <<"G", ":">>

\* 'G'
LetterBare == <<"G">>

\* ' THE_ROCK '
LetterRock == <<" ", "T", "H", "E", "_", "R", "O", "C", "K", " ">>

\* drive["letter"]
Letters == {None, LetterG, LetterBare, LetterRock}

\* drive["run_info"]
RunInfos == {<<>>, LineCinfoArmagedn, LineTinfoShort}

\* the drive arguments of a call
Drives ==
    {NotADict} \cup
    [is_dict : {TRUE}, letter : Letters, label : {None, LabelHardware, LabelShort},
     run_info : RunInfos]

\* what resolve_title_via_omdb returns: nothing, a suggestion below the
\* threshold, one above it without a year, and an exact match
Answers ==
    {NoResult,
     Result(MovieArma.Title, MovieArma.Year, MovieArma.imdbID, Frac(2, 5)),
     Result(MovieArmageddon.Title, None, None, Frac(7, 10)),
     Result(MovieArmageddon.Title, MovieArmageddon.Year, MovieArmageddon.imdbID, One)}

InitRip ==
    /\ drive \in Drives
    /\ omdb_api_key \in {None, <<"k", "e", "y">>}
    /\ rpc = "start"
    /\ raw_label = <<>>
    /\ drive_letter = <<>>
    /\ disc_candidate = <<>>
    /\ used_candidate_source = "none"
    /\ asked = <<>>
    /\ suggested = NoSuggestion
    /\ folder = <<>>
    /\ CleanIdle
    /\ ChooseIdle
    /\ OmdbIdle
    /\ ScoreIdle
    /\ NoisyIdle
    /\ TinfoIdle
    /\ TvIdle

ripRest == <<cleanVars, chooseVars, omdbVars, scoreVars, noisyVars, tinfoVars, tvVars>>

\* lines 47-49: the drive is not a dict
RipInvalid ==
    /\ rpc = "start"
    /\ ~drive.is_dict
    /\ folder' = <<0, None>>
    /\ rpc' = "done"
    /\ UNCHANGED <<drive, omdb_api_key, raw_label, drive_letter, disc_candidate,
                   used_candidate_source, asked, suggested, ripRest>>

\* lines 51-77
SelectCandidate ==
    /\ rpc = "start"
    /\ drive.is_dict
    /\ LET label == Strip(OrEmpty(drive.label), Space)
           letter == Strip(OrEmpty(drive.letter), Space)
           sel == select_disc_candidate(letter, drive.run_info, label)
       IN /\ raw_label' = label
          /\ drive_letter' = letter
          /\ disc_candidate' = sel.candidate
          /\ used_candidate_source' = sel.source
    /\ suggested' = NoSuggestion
    /\ rpc' = "probe"
    /\ UNCHANGED <<drive, omdb_api_key, asked, folder, ripRest>>

\* lines 80-84
ProbeLetter ==
    /\ rpc = "probe"
    /\ \E first \in Answers, second \in Answers :
          LET p == drive_letter_probe(drive_letter, omdb_api_key, first, second) IN
          /\ asked' = asked \o ProbeQueries(drive_letter, omdb_api_key, first)
          /\ suggested' = IF Truthy(p.title) THEN Suggest(p.title, p.year, p.score)
                          ELSE suggested
    /\ rpc' = "resolve"
    /\ UNCHANGED <<drive, omdb_api_key, raw_label, drive_letter, disc_candidate,
                   used_candidate_source, folder, ripRest>>

\* lines 87-92
ResolveCandidate ==
    /\ rpc = "resolve"
    /\ IF ~Truthy(suggested.title) /\ disc_candidate # <<>> /\ Truthy(omdb_api_key)
       THEN \E a \in Answers :
               /\ asked' = Append(asked, disc_candidate)
               /\ suggested' = IF Truthy(a.title)
                               THEN Suggest(a.title, a.year, a.confidence)
                               ELSE suggested
       ELSE UNCHANGED <<asked, suggested>>
    /\ rpc' = "name"
    /\ UNCHANGED <<drive, omdb_api_key, raw_label, drive_letter, disc_candidate,
                   used_candidate_source, folder, ripRest>>

\* lines 95-108
NameFolder ==
    /\ rpc = "name"
    /\ folder' = <<0, folder_name_src(suggested, disc_candidate, raw_label)>>
    /\ rpc' = "done"
    /\ UNCHANGED <<drive, omdb_api_key, raw_label, drive_letter, disc_candidate,
                   used_candidate_source, asked, suggested, ripRest>>

NextRip == RipInvalid \/ SelectCandidate \/ ProbeLetter \/ ResolveCandidate \/ NameFolder

SpecRip == InitRip /\ [][NextRip]_vars

\* ------------------------------------------------------------------------
\* Calls of rip_disc_into_set on one set
\* ------------------------------------------------------------------------

\* str(n) of a natural number
RECURSIVE IntStr(_)
IntStr(n) ==
    LET d == <<"0", "1", "2", "3", "4", "5", "6", "7", "8", "9">>[(n % 10) + 1] IN
    IF n < 10 THEN <<d>> ELSE Append(IntStr(n \div 10), d)

\* lib/tv_ripper.py lines 48-49: f"disc-{signature or index}"
disc_id(d) ==
    <<"d", "i", "s", "c", "-">> \o
    (IF Truthy(d.signature) THEN d.signature ELSE IntStr(d.index))

\* key in manifest["discs"]
HasDisc(m, id) == \E k \in 1..Len(m) : m[k][1] = id

\* manifest["discs"][key]
DiscRecord(m, id) == m[CHOOSE k \in 1..Len(m) : m[k][1] = id][2]

\* manifest["discs"][key] = rec
PutDisc(m, id, rec) ==
    IF HasDisc(m, id)
    THEN [k \in 1..Len(m) |-> IF m[k][1] = id THEN <<id, rec>> ELSE m[k]]
    ELSE Append(m, <<id, rec>>)

\* the disc is recorded, ripped or not
already_recorded(m, id) == HasDisc(m, id)

\* line 52: the disc is recorded as ripped
already_ripped(m, id) == HasDisc(m, id) /\ DiscRecord(m, id).ripped

\* lines 60-67
disc_record(d, ripped_files, episode_map) ==
    [disc_index |-> d.index,
     label |-> d.label,
     makemkv_info_hash |-> d.info_hash,
     ripped |-> ripped_files # <<>>,
     ripped_files |-> ripped_files,
     episode_map |-> episode_map]

\* lines 56-59: what ripper_fn gave, nothing when there is no ripper_fn
RippedBy(fn) ==
    IF fn.kind = "returns" THEN [files |-> fn.files, episode_map |-> fn.episode_map]
    ELSE [files |-> <<>>, episode_map |-> <<>>]

\* 't00.mkv'
FileT00 == <<"t", "0", "0", ".", "m", "k", "v">>

\* the ripper_fn arguments: none, one that rips nothing, one that rips a
\* title, and one that raises
RipperFns ==
    {NoRipper,
     [kind |-> "returns", files |-> <<>>, episode_map |-> <<>>],
     [kind |-> "returns", files |-> <<FileT00>>, episode_map |-> <<<<FileT00, 1>>>>],
     [kind |-> "raises", files |-> <<>>, episode_map |-> <<>>]}

\* the drive arguments: the signature is absent, empty, '1' or 'a'
SetDrives ==
    [signature : {None, <<>>, <<"1">>, <<"a">>}, index : {0, 1},
     label : {LabelShort}, info_hash : {None}]

InitTvRip ==
    /\ manifest = <<>>
    /\ set_drive = NoDrive
    /\ ripper_fn = NoRipper
    /\ loaded = <<>>
    /\ invoked = FALSE
    /\ written = FALSE
    /\ returned = <<>>
    /\ tvpc = "ready"
    /\ CleanIdle
    /\ ChooseIdle
    /\ OmdbIdle
    /\ ScoreIdle
    /\ NoisyIdle
    /\ TinfoIdle
    /\ RipIdle

tvRest == <<cleanVars, chooseVars, omdbVars, scoreVars, noisyVars, tinfoVars, ripVars>>

\* lines 47-54: the disc is recorded as ripped
SkipRipped ==
    \E d \in SetDrives, fn \in RipperFns :
        /\ already_ripped(manifest, disc_id(d))
        /\ set_drive' = d
        /\ ripper_fn' = fn
        /\ loaded' = manifest
        /\ invoked' = FALSE
        /\ written' = FALSE
        /\ returned' = <<TRUE, DiscRecord(manifest, disc_id(d))>>
        /\ tvpc' = "returned"
        /\ UNCHANGED <<manifest, tvRest>>

\* lines 47-71: the disc is ripped and recorded
RipAndRecord ==
    \E d \in SetDrives, fn \in RipperFns :
        /\ ~already_ripped(manifest, disc_id(d))
        /\ fn.kind # "raises"
        /\ LET got == RippedBy(fn)
               rec == disc_record(d, got.files, got.episode_map)
           IN /\ manifest' = PutDisc(manifest, disc_id(d), rec)
              /\ returned' = <<TRUE, rec>>
        /\ set_drive' = d
        /\ ripper_fn' = fn
        /\ loaded' = manifest
        /\ invoked' = (fn.kind # "none")
        /\ written' = TRUE
        /\ tvpc' = "returned"
        /\ UNCHANGED tvRest

\* lines 47-59: ripper_fn raises, and the call with it
RipperRaises ==
    \E d \in SetDrives, fn \in RipperFns :
        /\ ~already_ripped(manifest, disc_id(d))
        /\ fn.kind = "raises"
        /\ set_drive' = d
        /\ ripper_fn' = fn
        /\ loaded' = manifest
        /\ invoked' = TRUE
        /\ written' = FALSE
        /\ returned' = <<>>
        /\ tvpc' = "raised"
        /\ UNCHANGED <<manifest, tvRest>>

NextTvRip == SkipRipped \/ RipAndRecord \/ RipperRaises

SpecTvRip == InitTvRip /\ [][NextTvRip]_vars

\* ------------------------------------------------------------------------
\* Properties of choose_title (SpecChoose)
\* ------------------------------------------------------------------------

\* the parsed titles whose cleaned name is non-empty and not noisy
Qualifying ==
    {k \in 1..Len(parsed_titles) : CleanIfGood(parsed_titles[k].title) # <<>>}

\* the qualifying title of greatest duration, the earliest among equals
BestQualifying ==
    CHOOSE k \in Qualifying :
        \A j \in Qualifying :
            \/ parsed_titles[k].seconds > parsed_titles[j].seconds
            \/ parsed_titles[k].seconds = parsed_titles[j].seconds /\ k <= j

\* the gathered candidates (names of parsed titles, CINFO and TINFO values,
\* drive label) are all empty after cleaning, noisy or hardware labels
AllCandidatesBad ==
    \A c \in Chars(gather_raw_title_candidates(raw_info_text, drive_label, parsed_titles)) :
        \/ clean_title_string(c[2]) = <<>>
        \/ is_noisy_title(clean_title_string(c[2]))
        \/ is_hardware_label(clean_title_string(c[2]))

\* C1: whatever the scan text, the drive label, the parsed titles, the
\* interactive flag and the answer at the prompt, the string choose_title
\* returns is empty or is_noisy_title is false of it.
C1_ChosenNeverNoisy ==
    pc = "done" => chosen = <<>> \/ ~is_noisy_title(chosen)

\* a call that met a noisy parsed name and still returned a title
C1_Witness ==
    /\ pc = "done"
    /\ chosen # <<>>
    /\ \E k \in 1..Len(parsed_titles) : is_noisy_title(parsed_titles[k].title)

\* C3: when some parsed title has a clean, non-noisy name, choose_title
\* returns the cleaned name of the qualifying title of greatest 'seconds'
\* (the earliest in the list among equal durations), whatever the scan text,
\* the drive label and the interactive flag are.
C3_LongestParsedTitleWins ==
    pc = "done" /\ Qualifying # {} =>
        /\ chosen = clean_title_string(parsed_titles[BestQualifying].title)
        /\ via = "parsed"

\* two qualifying titles of equal duration with different names, behind a
\* shorter one, next to a scan text that has a disc-level title of its own
C3_Witness ==
    /\ pc = "done"
    /\ via = "parsed"
    /\ pick_cinfo_title(raw_info_text) # <<>>
    /\ \E j, k \in Qualifying :
          /\ j < k
          /\ parsed_titles[j].seconds = parsed_titles[k].seconds
          /\ parsed_titles[j].title # parsed_titles[k].title
          /\ chosen = clean_title_string(parsed_titles[j].title)

\* C4: when no parsed title has a clean, non-noisy name and pick_cinfo_title
\* of the scan text is non-empty, choose_title returns exactly that, without
\* scoring candidates and without prompting; the line CINFO:2,0,"ARMAGEDN",
\* alone or with a duration-shaped TINFO value, beside duration-shaped or no
\* parsed titles, gives "ARMAGEDN".
C4_CinfoTitleReturnedUnscored ==
    pc = "done" /\ Qualifying = {} =>
        /\ pick_cinfo_title(raw_info_text) # <<>> =>
              /\ chosen = pick_cinfo_title(raw_info_text)
              /\ via = "cinfo"
              /\ ~scored
              /\ ~prompted
        /\ raw_info_text \in {LineCinfoArmagedn, LineCinfoArmagedn \o LineTinfoDuration,
                              LineTinfoDuration \o LineCinfoArmagedn} =>
              chosen = <<"A", "R", "M", "A", "G", "E", "D", "N">>

\* the call of test_choose_skips_duration_in_parsed_titles_and_uses_cinfo
C4_Witness ==
    /\ pc = "done"
    /\ raw_info_text = LineCinfoArmagedn
    /\ drive_label = <<>>
    /\ parsed_titles = <<[title |-> TitleDuration, seconds |-> 9000]>>
    /\ ~interactive
    /\ chosen = <<"A", "R", "M", "A", "G", "E", "D", "N">>

\* C5, as stated: when every candidate (names of parsed titles, content-info
\* values, per-title-info values, drive label) is empty after cleaning, noisy
\* or a hardware label, choose_title returns the empty string.
C5_AllBadGivesEmpty ==
    pc = "done" /\ AllCandidatesBad => chosen = <<>>

\* C5, amended: when every candidate is empty after cleaning, noisy or a
\* hardware label, and pick_cinfo_title finds no usable field anywhere in the
\* scan text, choose_title returns the empty string.
C5_AllBadAndNoCinfoGivesEmpty ==
    pc = "done" /\ AllCandidatesBad /\ pick_cinfo_title(raw_info_text) = <<>> =>
        chosen = <<>> /\ via = "empty"

\* a call with candidates, all of them bad, that ended with the empty string
C5_Witness ==
    /\ pc = "done"
    /\ AllCandidatesBad
    /\ pick_cinfo_title(raw_info_text) = <<>>
    /\ drive_label = LabelHardware
    /\ raw_info_text # <<>>
    /\ parsed_titles # <<>>
    /\ chosen = <<>>

\* ------------------------------------------------------------------------
\* Properties of clean_title_string (SpecClean)
\* ------------------------------------------------------------------------

\* C6: clean_title_string is idempotent: cleaning a cleaned string gives the
\* cleaned string again.
C6_CleanIdempotent ==
    cpc = "recleaned" => recleaned = cleaned

\* ------------------------------------------------------------------------
\* Properties of resolve_title_via_omdb (SpecOmdb)
\* ------------------------------------------------------------------------

\* C2: whatever the query, the key, the threshold and the service's answers,
\* a call that returns a title returns it with a confidence of at least
\* SUGGEST_THRESHOLD (0.35); below that it returns (None, None, None, 0.0).
C2_ReturnedConfidenceAtLeastFloor ==
    (opc = "done" /\ result.title # None)
        => FracLeq(SUGGEST_THRESHOLD, result.confidence)

\* C7: a network call whose HTTP request failed has made three requests
\* (the first and two more) by the time it ends with an empty result.
C7_FailedRequestRetried ==
    (last.kind # "none" /\ last.raised) => last.requests = Retries + 1

\* C8: once an exact-title lookup (on a field, on an underscore variant, or on
\* the query as given) has reported success, the call has returned that
\* lookup's title, year and id with confidence 1.0, and the request of that
\* lookup is the last request made.
C8_ExactHitShortCircuits ==
    hit # NoHit =>
        /\ opc = "done"
        /\ result = Result(hit.body.Title, hit.body.Year, hit.body.imdbID, One)
        /\ requests = hit.request
        /\ last.kind = "title"

\* a lookup on an underscore variant reported success after an earlier
\* lookup had not
C8_Witness ==
    /\ hit # NoHit
    /\ opc = "done"
    /\ ~last.wrapped
    /\ requests > 1

\* C9 as stated: confidence 1.0 is returned only after an exact-title lookup
\* succeeded, and a result that comes from the scored pool has a confidence
\* strictly below 1.0.
C9_FullConfidenceOnlyFromExactHit ==
    opc = "done" =>
        /\ result.confidence = One => hit # NoHit
        /\ (hit = NoHit /\ result.title # None) => FracLess(result.confidence, One)

\* C9 amended: after an exact-title lookup succeeded the confidence returned
\* is 1.0; a result that comes from the scored pool carries the score of the
\* best entry, which is at most 1.0 and may be exactly 1.0.
C9_ConfidenceAtMostOne ==
    opc = "done" =>
        /\ hit # NoHit => result.confidence = One
        /\ (hit = NoHit /\ result.title # None) =>
              /\ result.confidence = best.score
              /\ FracLeq(result.confidence, One)

\* a pooled title equal to the query is returned with confidence 1.0, scored
\* by difflib, no exact lookup having succeeded
C9_Witness ==
    /\ opc = "done"
    /\ hit = NoHit
    /\ ~have_rapidfuzz
    /\ result.title = query
    /\ result.confidence = One

\* C10: a call with an empty query, or with an empty or missing key, makes no
\* HTTP request and returns (None, None, None, 0.0).
C10_NoQueryOrKeyNoCall ==
    (query = <<>> \/ api_key = None \/ api_key = <<>>) =>
        /\ requests = 0
        /\ result = NoResult
        /\ opc \in {"idle", "start", "done"}

\* a call with a query and an empty key has returned
C10_Witness ==
    /\ opc = "done"
    /\ query # <<>>
    /\ api_key = <<>>

\* C11: when no request of a call was answered with "Response": "True" (each
\* one raised or was answered with a failure), the call ends, raising
\* nothing, with (None, None, None, 0.0).
C11_AllRequestsFailGivesNoResult ==
    (opc = "done" /\ ~answered) => result = NoResult

\* a call has ended after requests that raised and none that was answered
\* with success; its last search raised
C11_Witness ==
    /\ opc = "done"
    /\ ~answered
    /\ requests > 1
    /\ last.kind = "search"
    /\ last.raised

\* the score difflib's ratio leads to for a title, the query being 'ARMAGEDN'
ArmagednScore(movie) ==
    final_score(QueryArmagedn, movie.Title,
                _score_string(QueryArmagedn, movie.Title, FALSE, 0))

\* C12: the query is 'ARMAGEDN', the threshold 0.4, titles are scored by
\* difflib, no exact lookup succeeded, and the pool holds 'Arma' (2017) and
\* 'Armageddon' (1998). Then the query is an ordered subsequence of
\* 'Armageddon' and not of 'Arma', 'Armageddon' outscores 'Arma' and is the
\* best entry, the confidence returned is its score and at least 0.4, and
\* the title, year and id returned are those of 'Armageddon' (unless the
\* service answers the request for its details with another entry).
C12_SubsequenceTitleOutscoresFragment ==
    (/\ opc = "done"
     /\ query = QueryArmagedn
     /\ threshold = [n |-> 2, d |-> 5]
     /\ ~have_rapidfuzz
     /\ hit = NoHit
     /\ uniq = {MovieArma, MovieArmageddon})
        => /\ _is_subsequence(query, MovieArmageddon.Title)
           /\ ~_is_subsequence(query, MovieArma.Title)
           /\ FracLess(ArmagednScore(MovieArma), ArmagednScore(MovieArmageddon))
           /\ best.iid = MovieArmageddon.imdbID
           /\ best.score = ArmagednScore(MovieArmageddon)
           /\ result.confidence = best.score
           /\ FracLeq(threshold, result.confidence)
           /\ result.imdb_id = best.iid =>
                 result = Result(MovieArmageddon.Title, MovieArmageddon.Year,
                                 MovieArmageddon.imdbID, best.score)

\* such a call has returned 'Armageddon' after the request for its details failed
C12_Witness ==
    /\ opc = "done"
    /\ query = QueryArmagedn
    /\ threshold = [n |-> 2, d |-> 5]
    /\ ~have_rapidfuzz
    /\ hit = NoHit
    /\ uniq = {MovieArma, MovieArmageddon}
    /\ last.kind = "id"
    /\ answered
    /\ last.raised
    /\ result.title = MovieArmageddon.Title

\* ------------------------------------------------------------------------
\* Properties of score_and_prioritise_candidates (SpecScore)
\* ------------------------------------------------------------------------

\* the string a raw candidate cleans to
CleanedKey(c) == Strip(clean_title_string(c[2]), Space)

\* the raw candidate cleans to a non-empty string that is not noisy
Counts(c) == clean_title_string(c[2]) # <<>> /\ ~is_noisy_title(clean_title_string(c[2]))

\* where in the input list a cleaned string occurs first
FirstOccurrence(key) ==
    CHOOSE i \in 1..Len(cands) :
        /\ Counts(cands[i]) /\ CleanedKey(cands[i]) = key
        /\ \A j \in 1..(i - 1) : ~(Counts(cands[j]) /\ CleanedKey(cands[j]) = key)

\* C13: the output is in non-increasing order of score; of two entries with
\* equal scores the one whose string occurs first in the input list comes
\* first; a second call on the same list returns the same list.
C13_RankedStableDescending ==
    /\ spc \in {"ranked", "reranked"} =>
          \A i, j \in 1..Len(ranked) :
              i < j =>
                 /\ ranked[i][2] >= ranked[j][2]
                 /\ ranked[i][2] = ranked[j][2] =>
                       FirstOccurrence(ranked[i][1]) < FirstOccurrence(ranked[j][1])
    /\ spc = "reranked" => reranked = ranked

\* two entries of equal score, the list ranked twice
C13_Witness ==
    /\ spc = "reranked"
    /\ \E i, j \in 1..Len(ranked) : i < j /\ ranked[i][2] = ranked[j][2]
    /\ \E i, j \in 1..Len(ranked) : i < j /\ ranked[i][2] > ranked[j][2]

\* ------------------------------------------------------------------------
\* Properties of the fallback step of choose_title (SpecChoose)
\* ------------------------------------------------------------------------

\* C14: no entry of the pool the fallback step of choose_title selects from
\* (automatically, by default or through the prompt list) satisfies
\* is_hardware_label, whatever its score.
C14_PoolHasNoHardwareLabel ==
    scored => \A k \in 1..Len(filtered) : ~is_hardware_label(filtered[k][1])

\* a call whose drive label is a hardware label and whose pool is not empty
C14_Witness ==
    /\ pc = "done"
    /\ scored
    /\ filtered # <<>>
    /\ via \in {"auto", "default", "prompt"}
    /\ is_hardware_label(clean_title_string(drive_label))
    /\ <<"label", drive_label>> \in
          Chars(gather_raw_title_candidates(raw_info_text, drive_label, parsed_titles))

\* C15: with interactive false, when neither the parsed titles nor the
\* disc-level title give a name and the filtered pool is not empty,
\* choose_title returns the top entry of the pool, whatever the gap between
\* its score and the runner-up's.
C15_NonInteractiveTakesTop ==
    (/\ pc = "done"
     /\ ~interactive
     /\ Qualifying = {}
     /\ pick_cinfo_title(raw_info_text) = <<>>
     /\ filtered_pool(raw_info_text, drive_label, parsed_titles) # <<>>)
    => /\ chosen = filtered_pool(raw_info_text, drive_label, parsed_titles)[1][1]
       /\ via \in {"auto", "default"}
       /\ ~prompted

\* a non-interactive call that took the top of a pool whose first two scores
\* are less than the margin apart
C15_Witness ==
    /\ pc = "done"
    /\ ~interactive
    /\ via = "default"
    /\ Len(filtered) >= 2
    /\ filtered[1][2] < filtered[2][2] + AutoAcceptMargin
    /\ chosen = filtered[1][1]

\* the number a reply stands for: its text without the blanks around it is
\* made of decimal digits
IsNumber(line) == Strip(line, Space) # <<>> /\ AllIn(Strip(line, Space), Digit)

\* C16: at the prompt of choose_title, the reply 0 gives the empty string, a
\* number k with 1 <= k <= min(6, size of the pool) gives the k-th entry of
\* the pool, and every other reply (not a number, out of range), like an
\* error raised while reading, gives the top entry of the pool.
C16_PromptReplyDecides ==
    pc = "done" /\ prompted =>
        LET k == IntOf(Strip(reply.line, Space))
            n == IF Len(filtered) < 6 THEN Len(filtered) ELSE 6
        IN  /\ via = "prompt"
            /\ reply.error => chosen = filtered[1][1]
            /\ ~reply.error /\ IsNumber(reply.line) /\ k = 0 => chosen = <<>>
            /\ ~reply.error /\ IsNumber(reply.line) /\ 1 <= k /\ k <= n =>
                  chosen = filtered[k][1]
            /\ ~reply.error /\ (~IsNumber(reply.line) \/ k > n) =>
                  chosen = filtered[1][1]

\* a prompt over a pool of more than six entries answered with 7
C16_Witness ==
    /\ pc = "done"
    /\ prompted
    /\ Len(filtered) > 6
    /\ ~reply.error
    /\ reply.line = <<"7">>
    /\ chosen = filtered[1][1]
    /\ chosen # filtered[7][1]

\* C19: choose_title reads from the terminal only if interactive is true, a
\* terminal is attached to standard input, the filtered pool has at least
\* two entries and the top score leads the runner-up's by less than 8; with
\* a single entry, a lead of 8 or more, interactive false or no terminal it
\* returns without prompting.
C19_PromptsOnlyWhenAmbiguousAtTerminal ==
    /\ prompted =>
          /\ interactive
          /\ isatty
          /\ Len(filtered) >= 2
          /\ filtered[1][2] - filtered[2][2] < 8
    /\ (/\ pc = "done"
        /\ \/ ~interactive
           \/ ~isatty
           \/ Len(filtered) < 2
           \/ filtered[1][2] - filtered[2][2] >= 8)
       => ~prompted /\ reply = NoReply

\* an interactive call that found no terminal and took the top of an
\* ambiguous pool unasked
C19_Witness ==
    /\ pc = "done"
    /\ interactive
    /\ ~isatty
    /\ ~prompted
    /\ via = "default"
    /\ Len(filtered) >= 2
    /\ filtered[1][2] - filtered[2][2] < 8
    /\ chosen = filtered[1][1]

\* ------------------------------------------------------------------------
\* Properties of is_noisy_title (SpecNoisy)
\* ------------------------------------------------------------------------

\* ':DD' at position i of s
ColonGroupAt(s, i) ==
    /\ i + 2 <= Len(s)
    /\ s[i] = ":"
    /\ s[i + 1] \in Digit
    /\ s[i + 2] \in Digit

\* H:MM:SS, HH:MM:SS, M:SS or MM:SS: one or two digits, then one or two
\* groups ':DD', and nothing else
ClockShaped(s) ==
    \E lead \in 1..2, groups \in 1..2 :
        /\ Len(s) = lead + 3 * groups
        /\ \A i \in 1..lead : s[i] \in Digit
        /\ \A g \in 0..(groups - 1) : ColonGroupAt(s, lead + 3 * g + 1)

\* C17: is_noisy_title is true of every string of the shape H:MM:SS,
\* HH:MM:SS or MM:SS (one or two leading digits, then one or two groups of
\* a colon and two digits).
C17_ClockStringsAreNoisy ==
    npc = "judged" /\ ClockShaped(candidate) => noisy

\* '0:42:00' of test_duration_strings_are_noisy, judged noisy
C17_Witness ==
    /\ npc = "judged"
    /\ candidate = <<"0", ":", "4", "2", ":", "0", "0">>
    /\ ClockShaped(candidate)
    /\ noisy

\* ------------------------------------------------------------------------
\* Properties of pick_title_name_from_tinfo (SpecTinfo)
\* ------------------------------------------------------------------------

\* the value is not empty after cleaning and its cleaned form is not noisy
Usable(v) ==
    LET cand == clean_title_string(v)
    IN  cand # <<>> /\ ~is_noisy_title(cand)

\* the positions in data of the usable fields whose id is fid
UsableAt(fid) == {k \in 1..Len(data) : data[k][1] = fid /\ Usable(data[k][2])}

\* the usable fields outside the priority list and other than field 2
UsableOthers ==
    {k \in 1..Len(data) : data[k][1] \notin {27, 49, 30, 3, 2} /\ Usable(data[k][2])}

\* the cleaned value of the one field of the set ks, or of its earliest
CleanedFirst(ks) ==
    clean_title_string(data[CHOOSE k \in ks : \A j \in ks : k <= j][2])

\* C18: pick_title_name_from_tinfo returns the cleaned value of the first
\* of the fields 27, 49, 30, 3, in this order, whose cleaned value is
\* non-empty and not noisy; failing these, the first such value among the
\* other fields in the order of the dict; never a value taken from field 2;
\* and the empty string when no field qualifies, as for
\* {27: 'A1_t00.mkv', 30: '22 chapter(s) , 7087.6 MB (A1)', 2: 'ARMAGEDN'}.
C18_TinfoPickFollowsPriority ==
    tpc = "done" =>
        /\ picked =
              (IF UsableAt(27) # {} THEN CleanedFirst(UsableAt(27))
               ELSE IF UsableAt(49) # {} THEN CleanedFirst(UsableAt(49))
               ELSE IF UsableAt(30) # {} THEN CleanedFirst(UsableAt(30))
               ELSE IF UsableAt(3) # {} THEN CleanedFirst(UsableAt(3))
               ELSE IF UsableOthers # {} THEN CleanedFirst(UsableOthers)
               ELSE <<>>)
        /\ picked # <<>> =>
              \E k \in 1..Len(data) :
                  data[k][1] # 2 /\ clean_title_string(data[k][2]) = picked
        /\ data = << <<27, ValueFileName>>, <<30, ValueChapters>>, <<2, ValueArmagedn>> >>
              => picked = <<>>

\* the call of test_pick_title_name_from_tinfo_prefers_human: field 2 holds
\* the only usable value and nothing is picked
C18_Witness ==
    /\ tpc = "done"
    /\ data = << <<27, ValueFileName>>, <<30, ValueChapters>>, <<2, ValueArmagedn>> >>
    /\ Usable(ValueArmagedn)
    /\ picked = <<>>

\* ------------------------------------------------------------------------
\* Properties of the scores (SpecScore)
\* ------------------------------------------------------------------------

\* the weight the sources carry
StatedWeight(src) ==
    IF src = "cinfo" THEN 40
    ELSE IF src = "tinfo_parsed" THEN 12
    ELSE IF src = "label" THEN 8
    ELSE IF src = "tinfo" THEN 4
    ELSE 1

\* a lowercase letter next to an uppercase one, in either order
CaseChange(val) ==
    \E k \in 1..(Len(val) - 1) :
        {val[k], val[k + 1]} \cap Lower # {} /\ {val[k], val[k + 1]} \cap Upper # {}

\* what the raw candidate c adds to the string key it cleans to
StatedShare(c, key) ==
    StatedWeight(c[1])
    + (IF Len(key) >= 4 THEN 2 ELSE 0)
    + (IF CaseChange(c[2]) THEN 1 ELSE 0)

\* the sum of the shares of the first n candidates that clean to key
RECURSIVE StatedScore(_, _)
StatedScore(key, n) ==
    IF n = 0 THEN 0
    ELSE StatedScore(key, n - 1)
         + (IF Counts(cands[n]) /\ CleanedKey(cands[n]) = key
            THEN StatedShare(cands[n], key) ELSE 0)

\* C20: score_and_prioritise_candidates gives each distinct cleaned,
\* non-noisy string the sum, over the raw candidates that clean to exactly
\* that string, of the source weight (cinfo 40, tinfo_parsed 12, label 8,
\* tinfo 4, any other source 1), plus 2 if the cleaned string has four
\* characters or more, plus 1 if the raw value has a lowercase letter next
\* to an uppercase one; candidates that clean to nothing or to a noisy
\* string add nothing and are not in the output.
C20_ScoreIsSumOfShares ==
    spc \in {"ranked", "reranked"} =>
        /\ \A i, j \in 1..Len(ranked) : ranked[i][1] = ranked[j][1] => i = j
        /\ {ranked[i][1] : i \in 1..Len(ranked)}
              = {CleanedKey(cands[n]) : n \in {m \in 1..Len(cands) : Counts(cands[m])}}
        /\ \A i \in 1..Len(ranked) :
              ranked[i][2] = StatedScore(ranked[i][1], Len(cands))

\* a list with two candidates of different sources for one string, one of
\* them with a change of case, next to a noisy candidate
C20_Witness ==
    /\ spc = "ranked"
    /\ Len(ranked) = 1
    /\ \E a, b, c \in 1..Len(cands) :
          /\ a # b
          /\ Counts(cands[a]) /\ Counts(cands[b]) /\ ~Counts(cands[c])
          /\ CleanedKey(cands[a]) = CleanedKey(cands[b])
          /\ cands[a][1] # cands[b][1]
          /\ cands[a][2] # cands[b][2]
          /\ CaseChange(cands[a][2])
          /\ ranked[1][2] = StatedShare(cands[a], ranked[1][1])
                            + StatedShare(cands[b], ranked[1][1])

\* ------------------------------------------------------------------------
\* Properties of the scored pool of resolve_title_via_omdb (SpecOmdb)
\* ------------------------------------------------------------------------

\* the call has scored its pool and found a best entry
PoolScored == opc = "done" /\ best.iid # None

\* the entry of the pool the best score belongs to
BestEntry == CHOOSE u \in uniq : KeyOf(u) = best.iid

\* C21: after the scoring of a non-empty pool with best entry b of score s:
\* if s >= threshold the result is b with confidence s; else if s >= 0.35
\* the result is b with confidence s again; else it is (None, None, None,
\* 0.0).  The confidence returned is s whether the request for the details
\* succeeds, fails or is not made because the id is not one of the service.
C21_BestReturnedWithItsScore ==
    PoolScored =>
        IF FracLeq(threshold, best.score) \/ FracLeq([n |-> 7, d |-> 20], best.score)
        THEN /\ result.confidence = best.score
             /\ \/ result = Result(BestEntry.Title, BestEntry.Year, BestEntry.imdbID,
                                   best.score)
                \/ /\ last.kind = "id"
                   /\ ~last.raised
                   /\ \E m \in Movies :
                         result = Result(m.Title, m.Year, m.imdbID, best.score)
             /\ BestEntry.imdbID = None => last.kind # "id"
        ELSE result = NoResult

\* a best entry below the threshold and at or above 0.35, returned with its
\* score after the request for its details failed
C21_Witness ==
    /\ PoolScored
    /\ FracLess(best.score, threshold)
    /\ FracLeq([n |-> 7, d |-> 20], best.score)
    /\ last.kind = "id"
    /\ last.raised
    /\ result = Result(BestEntry.Title, BestEntry.Year, BestEntry.imdbID, best.score)

\* the pool has been scored and has a best entry
BestChosen == opc \in {"details", "done"} /\ best.iid # None

\* C22: the entry resolve_title_via_omdb takes as best has the greatest
\* final score of the deduplicated pool; among the entries of that score it
\* has the longest title; among those equal in score and in length of title
\* it is the first in the order of the keys: the pool decides, not the order
\* in which the searches brought its entries.
C22_BestIsMaximalLongestFirst ==
    BestChosen =>
        /\ DOMAIN scores = uniq
        /\ best.score = scores[BestEntry]
        /\ best.title = BestEntry.Title
        /\ \A u \in uniq :
              /\ FracLeq(scores[u], scores[BestEntry])
              /\ scores[u] = scores[BestEntry] =>
                    /\ Len(u.Title) <= Len(BestEntry.Title)
                    /\ Len(u.Title) = Len(BestEntry.Title) /\ u # BestEntry =>
                          StrLess(KeyOf(BestEntry), KeyOf(u))

\* two entries of one score: the best one has the longer title though its key
\* comes after that of the other
C22_Witness ==
    /\ BestChosen
    /\ query = QueryUp
    /\ \E u \in uniq :
          /\ scores[u] = scores[BestEntry]
          /\ Len(u.Title) < Len(BestEntry.Title)
          /\ StrLess(KeyOf(u), KeyOf(BestEntry))

\* ------------------------------------------------------------------------
\* Properties of the searches of resolve_title_via_omdb (SpecOmdb)
\* ------------------------------------------------------------------------

\* the query without its white space
StrippedQuery == SelectSeq(query, LAMBDA c : c \notin Space)

\* the searches made so far, the exact lookups being over
SearchesMade == Len(search_terms(query)) - Len(terms)

\* the searches that follow the full-string search and precede the token
\* searches; the call is in its search phase or past it
PrefixSearches == Len(search_terms(query)) - 1 - Len(token_terms(query))

\* the call has gone through its exact lookups without a hit
Searching == opc \in {"search", "details"} \/ (opc = "done" /\ last.kind \in {"search", "id"})

\* C23, as stated: the prefix searches use prefixes of the stripped query
\* from its full length down to 3 characters fewer, never shorter than 4
\* characters; no prefix shorter than the full length less 3 is searched
\* for, so a call makes at most 4 prefix searches.
C23_PrefixesDownToThreeFewer ==
    Searching /\ last.kind = "search" /\ SearchesMade \in 2..(1 + PrefixSearches) =>
        /\ last.term = SubSeq(StrippedQuery, 1, Len(last.term))
        /\ Len(last.term) >= 4
        /\ Len(last.term) >= Len(StrippedQuery) - 3
        /\ SearchesMade - 1 <= 4

\* C23, amended: the prefix searches use the prefixes of the stripped query
\* from its full length down to 6 characters fewer, longest first, never
\* shorter than 4 characters: the k-th prefix search is for the prefix of
\* length (full length - k + 1), and a call makes at most 7 of them.
C23_PrefixesDownToSixFewer ==
    Searching /\ last.kind = "search" /\ SearchesMade \in 2..(1 + PrefixSearches) =>
        /\ last.term = SubSeq(StrippedQuery, 1, Len(StrippedQuery) - (SearchesMade - 2))
        /\ Len(last.term) >= 4
        /\ Len(last.term) >= Len(StrippedQuery) - 6
        /\ SearchesMade - 1 <= 7
        /\ PrefixSearches =
              (IF Len(StrippedQuery) < 4 THEN 0
               ELSE IF Len(StrippedQuery) - 3 < 7 THEN Len(StrippedQuery) - 3 ELSE 7)

\* the seventh prefix search of a call: 'Arma' for the query 'Armageddon'
C23_Witness ==
    /\ Searching
    /\ last.kind = "search"
    /\ query = QueryArmageddon
    /\ SearchesMade = 8
    /\ last.term = <<"A", "r", "m", "a">>

\* ------------------------------------------------------------------------
\* Properties of gather_raw_title_candidates (SpecChoose)
\* ------------------------------------------------------------------------

\* the candidates the fallback step of the call gathered (line 286)
Gathered == gather_raw_title_candidates(raw_info_text, drive_label, parsed_titles)

\* the place of a source in the order label, cinfo, tinfo, tinfo_parsed
SourceRank(src) ==
    IF src = "label" THEN 0
    ELSE IF src = "cinfo" THEN 1
    ELSE IF src = "tinfo" THEN 2
    ELSE 3

\* the CINFO and TINFO lines of the scan text, in its order
InfoLines ==
    SelectSeq(splitlines(raw_info_text),
              LAMBDA l : Len(l) >= 5 /\ SubSeq(l, 2, 5) = <<"I", "N", "F", "O">>
                                     /\ l[1] \in {"C", "T"})

\* what stands between the first and the last double quote of a line
Quoted(l) ==
    LET qs == {k \in 1..Len(l) : l[k] = "\""}
    IN  SubSeq(l, (CHOOSE k \in qs : \A j \in qs : k <= j) + 1,
                  (CHOOSE k \in qs : \A j \in qs : k >= j) - 1)

\* the parsed titles that have a name, in the order of the list
NamedTitles == SelectSeq(parsed_titles, LAMBDA t : t.title # <<>>)

\* C24, as stated: gather_raw_title_candidates gives the drive label (if
\* any), then every CINFO value, then every TINFO value, then every
\* non-empty name of a parsed title: every 'cinfo' candidate comes before
\* every 'tinfo' candidate, whatever the order of the lines of the scan text.
C24_CandidatesGroupedBySource ==
    scored =>
        \A i, j \in 1..Len(Gathered) :
            i < j => SourceRank(Gathered[i][1]) <= SourceRank(Gathered[j][1])

\* C24, amended: gather_raw_title_candidates gives the drive label (if any),
\* then the values of the CINFO and TINFO lines in the order of these lines
\* in the scan text, then the non-empty names of the parsed titles in the
\* order of the list.
C24_CandidatesInLineOrder ==
    scored =>
        LET off == IF drive_label # <<>> THEN 1 ELSE 0
        IN  /\ Len(Gathered) = off + Len(InfoLines) + Len(NamedTitles)
            /\ off = 1 => Gathered[1] = <<"label", drive_label>>
            /\ \A k \in 1..Len(InfoLines) :
                  Gathered[off + k] =
                      <<IF InfoLines[k][1] = "C" THEN "cinfo" ELSE "tinfo",
                        Quoted(InfoLines[k])>>
            /\ \A k \in 1..Len(NamedTitles) :
                  Gathered[off + Len(InfoLines) + k] =
                      <<"tinfo_parsed", NamedTitles[k].title>>

\* a call that gathered a TINFO value before a CINFO value, behind the
\* drive label and before the name of a parsed title
C24_Witness ==
    /\ scored
    /\ drive_label # <<>>
    /\ NamedTitles # <<>>
    /\ \E i, j \in 1..Len(Gathered) :
          i < j /\ Gathered[i][1] = "tinfo" /\ Gathered[j][1] = "cinfo"

\* ------------------------------------------------------------------------
\* Properties of the size and number rules of is_noisy_title (SpecNoisy)
\* ------------------------------------------------------------------------

\* the places of s where the letters 'gb' or 'mb' stand, in either case
UnitPlaces(s) ==
    {i \in 1..(Len(s) - 1) :
        SubSeq(lower(s), i, i + 1) \in {<<"g", "b">>, <<"m", "b">>}}

\* the two letters at place i have a letter right before or right after them
InsideWord(s, i) ==
    \/ i > 1 /\ s[i - 1] \in Lower \cup Upper
    \/ i + 2 <= Len(s) /\ s[i + 2] \in Lower \cup Upper

\* a rule of is_noisy_title other than the two on 'gb' and 'mb' fires
OtherRuleFires(s) ==
    \/ s = <<>>
    \/ IsScanTag(s)
    \/ IsClockTime(Strip(s, Space))
    \/ IsLongNumeric(Strip(s, Space))
    \/ HasChapterWord(lower(s))
    \/ HasChapterList(s)
    \/ IsNumericList(Strip(s, Space))
    \/ "<" \in Chars(s)
    \/ ">" \in Chars(s)
    \/ Contains(lower(s), <<"&", "l", "t", ";">>)
    \/ Contains(lower(s), <<"&", "g", "t", ";">>)
    \/ Contains(lower(s), PhraseTitleInformation)
    \/ Contains(lower(s), PhraseSourceInformation)
    \/ Contains(lower(s), <<"c", "h", "a", "p", "t", "e", "r">>)
    \/ HasChapterCount(lower(s))
    \/ EndsWithExtension(s)
    \/ IsCrypticCode(s)
    \/ IsTooShort(s)
    \/ is_hardware_label(s)

\* C25: the size rule of is_noisy_title fires only when 'gb' or 'mb' stands
\* as a unit at a word boundary: a string in which these letters stand only
\* inside a longer word, like 'Dumbo', and which no other rule rejects, is
\* not noisy.
C25_UnitInsideWordIsNotNoise ==
    (/\ npc = "judged"
     /\ UnitPlaces(candidate) # {}
     /\ \A i \in UnitPlaces(candidate) : InsideWord(candidate, i)
     /\ ~OtherRuleFires(candidate))
    => ~noisy

\* C26: is_noisy_title lets a bare year through: a string of exactly four
\* digits is not noisy, while a string of five or more digits, commas and
\* blanks is.
C26_FourDigitYearIsNotNoise ==
    npc = "judged" =>
        /\ Len(candidate) = 4 /\ AllIn(candidate, Digit) => ~noisy
        /\ Len(candidate) >= 5 /\ AllIn(candidate, Digit \cup {","} \cup Space) => noisy

\* ------------------------------------------------------------------------
\* Properties of the hardware filter of choose_title (SpecChoose)
\* ------------------------------------------------------------------------

\* the gathered values that clean to a hardware label
HardwareGathered ==
    {k \in 1..Len(Gathered) : is_hardware_label(clean_title_string(Gathered[k][2]))}

\* C28: every string is_hardware_label accepts is noisy for is_noisy_title,
\* so the list of score_and_prioritise_candidates holds no hardware label
\* and the filter of the fallback step of choose_title removes nothing: the
\* filtered pool is the scored pool.
C28_HardwareFilterRemovesNothing ==
    scored =>
        /\ \A k \in HardwareGathered : is_noisy_title(clean_title_string(Gathered[k][2]))
        /\ \A e \in Chars(score_and_prioritise_candidates(Gathered)) :
              ~is_hardware_label(e[1])
        /\ filtered = score_and_prioritise_candidates(Gathered)

\* a call that gathered a hardware label and scored other candidates
C28_Witness ==
    /\ scored
    /\ HardwareGathered # {}
    /\ filtered # <<>>
    /\ filtered = score_and_prioritise_candidates(Gathered)

\* the requests of the exact-lookup phase of a call that found nothing in it
ExactRequests == Len(try_exact_lookups(query)) + 1

\* C29: every call of resolve_title_via_omdb ends after a bounded number of
\* network calls: after its exact lookups it makes at most 1 full-string
\* search, at most 7 prefix searches, at most 3 token searches and at most
\* 1 request for details, whatever the length of the query and whatever the
\* service answers.
C29_BoundedNetworkCalls ==
    /\ Searching =>
          /\ Len(search_terms(query)) =
                1 + PrefixSearches + Len(token_terms(query))
          /\ PrefixSearches <= 7
          /\ Len(token_terms(query)) <= 3
          /\ SearchesMade <= 1 + 7 + 3
          /\ requests = ExactRequests + SearchesMade + (IF last.kind = "id" THEN 1 ELSE 0)
          /\ SearchesMade >= 1 => last.kind \in {"search", "id"}
    /\ requests <= ExactRequests + 1 + 7 + 3 + 1
    /\ opc = "done" /\ last.kind = "id" => SearchesMade = Len(search_terms(query))

\* a call on a query of four long words that made its 11 searches, 7 of them
\* for prefixes and 3 for tokens, and then asked for the details
C29_Witness ==
    /\ opc = "done"
    /\ query = QueryFourWords
    /\ last.kind = "id"
    /\ PrefixSearches = 7
    /\ Len(token_terms(query)) = 3
    /\ requests = ExactRequests + 11 + 1

\* ------------------------------------------------------------------------
\* Properties of rip_longest_titles (SpecRip)
\* ------------------------------------------------------------------------

\* the call is past the selection of the disc candidate
CandidateSelected == rpc \in {"probe", "resolve", "name", "done"} /\ drive.is_dict

\* C27: the disc candidate is chosen in the order CINFO title, drive letter,
\* drive label: whenever pick_cinfo_title(run_info) is not empty, the disc
\* candidate is that title, also when a drive letter that is not noise is there.
C27_CinfoPreferredOverDriveLetter ==
    CandidateSelected /\ pick_cinfo_title(drive.run_info) # <<>> =>
        /\ disc_candidate = pick_cinfo_title(drive.run_info)
        /\ used_candidate_source = "cinfo"

\* ------------------------------------------------------------------------
\* Properties of rip_disc_into_set (SpecTvRip)
\* ------------------------------------------------------------------------

\* a call was made
Called == tvpc \in {"returned", "raised"}

\* the disc id of the last call
LastId == disc_id(set_drive)

\* the disc ids recorded in a manifest
DiscIds(m) == {m[k][1] : k \in 1..Len(m)}

\* the last call found its disc recorded as ripped
FoundRipped == Called /\ HasDisc(loaded, LastId) /\ DiscRecord(loaded, LastId).ripped

\* the last call found its disc recorded, but not as ripped
FoundUnripped == Called /\ HasDisc(loaded, LastId) /\ ~DiscRecord(loaded, LastId).ripped

====
